---------------------------- MODULE Spec2Model ----------------------------
(***************************************************************************)
(* A model of the software renderer of CG-PROJECT: the Z-buffer, the       *)
(* filled and the wireframe triangle rasterizers (rendering/rasterizer.py),*)
(* the Renderer that owns the framebuffer and the Z-buffer                 *)
(* (rendering/renderer.py), fan triangulation                              *)
(* (rendering/triangulation.py), the camera and its matrices               *)
(* (rendering/camera.py), the vector and matrix classes (math/), the       *)
(* texture sampler (rendering/texture.py), vertex normals                  *)
(* (rendering/triangulation.py), the light and the clamp of the Phong sum  *)
(* (rendering/lighting.py), mesh editing (interface/models/model.py) and   *)
(* the lists of models and cameras of a scene (interface/models/scene.py). *)
(*                                                                         *)
(* Numbers.  The source computes in floating point.  The rasterizer, the   *)
(* camera and the vector and matrix classes are modelled exactly, over     *)
(* rationals:                                                              *)
(*   - a screen coordinate is an integer count of quarter pixels, so the   *)
(*     Vector2 (0.5, 1.75) is <<2, 7>> and the centre of pixel column x,   *)
(*     x + 0.5, is 4*x + 2;                                                *)
(*   - a normalized device coordinate is an integer count of halves, so    *)
(*     (ndc + 1) * 0.5 * width is (k + 2) * width quarter pixels;          *)
(*   - a depth is a reduced fraction <<n, d>> with d > 0, and float('inf') *)
(*     is <<1, 0>>;                                                        *)
(*   - a colour is a triple of integers.                                   *)
(* On these inputs every edge function is an exact float as well, so the   *)
(* inside test and the degenerate test are what the source computes.  The  *)
(* interpolated depth and colour are the exact values: the source's        *)
(* binary64 results are these values rounded after each operation, so an   *)
(* equality between interpolated values below is an equality in exact      *)
(* arithmetic, which the source's depths meet to within the last bits and  *)
(* its truncated colour channels to within one.  In the camera             *)
(* 1 / tan(fov / 2) of the default field of view of 45 degrees, 1 + sqrt 2,*)
(* is the fraction 169 / 70, and camera positions are chosen so that the   *)
(* lengths the view matrix normalizes by are rational.                     *)
(*                                                                         *)
(* The texture sampler is modelled in binary64, rounding to nearest with   *)
(* ties to even after each operation, since whether a texture coordinate   *)
(* i / (width - 1) multiplies back to exactly i is a matter of rounding.   *)
(***************************************************************************)
EXTENDS Integers, Sequences, FiniteSets, TLC

(***************************************************************************)
(* Bounds of the model.                                                    *)
(***************************************************************************)
MaxW == 2
MaxH == 2
MaxDraws == 2
MaxFaceLen == 4
MaxIndex == 2
MaxCoord == 5
MaxTexW == 23
MaxTexH == 23
MaxFaces == 2
MaxVertices == 4
MaxModels == 3
MaxCameras == 2

VARIABLES
    width,      \* Renderer.width
    height,     \* Renderer.height
    image,      \* Renderer.image: image[y+1][x+1] is the pixel (x, y)
    zbuffer,    \* Renderer.zbuffer: a ZBuffer [width, height, buffer]
    settings,   \* Renderer.settings: a RenderSettings
    draws,      \* number of draw calls since the buffers were last reset
    last,       \* the call that produced this state, with what it returned
    prev,       \* the call before a direct rasterize_triangle call
    camera,     \* RenderWidget.camera: a Camera
    mesh,       \* the Model being edited
    scene       \* MainWindow.scene: a Scene

vars == <<width, height, image, zbuffer, settings, draws, last, prev, camera,
          mesh, scene>>

-----------------------------------------------------------------------------
(* Arithmetic helpers.                                                     *)

Abs(n) == IF n < 0 THEN -n ELSE n

Min2(a, b) == IF a < b THEN a ELSE b

Max2(a, b) == IF a > b THEN a ELSE b

Min3(a, b, c) == Min2(a, Min2(b, c))

Max3(a, b, c) == Max2(a, Max2(b, c))

\* Python's int() of the quotient n/d, d > 0: truncation toward zero.
TruncDiv(n, d) == IF n >= 0 THEN n \div d ELSE -((-n) \div d)

RECURSIVE Gcd(_, _)
Gcd(a, b) == IF b = 0 THEN a ELSE Gcd(b, a % b)

\* The fraction n/d (d # 0) in lowest terms with a positive denominator.
Rat(n, d) ==
    LET g == Gcd(Abs(n), Abs(d))
        s == IF d < 0 THEN -1 ELSE 1
    IN  <<s * (n \div g), s * (d \div g)>>

\* float('inf')
Inf == <<1, 0>>

\* a < b on depths, either of which may be float('inf').
DepthLess(a, b) ==
    IF a[2] = 0 THEN FALSE
    ELSE IF b[2] = 0 THEN TRUE
    ELSE a[1] * b[2] < b[1] * a[2]

-----------------------------------------------------------------------------
(* rendering/rasterizer.py: ZBuffer                                        *)

\* A height-by-width grid, all cells v: [[v for _ in range(w)] for _ in range(h)]
Grid(w, h, v) == [y \in 1..h |-> [x \in 1..w |-> v]]

\* ZBuffer.__init__ with the two range() calls exchanged.
ZBuffer_transposed(w, h) == [width |-> w, height |-> h, buffer |-> Grid(h, w, Inf)]

\* ZBuffer.__init__(width, height)
ZBuffer(w, h) == [width |-> w, height |-> h, buffer |-> Grid(w, h, Inf)]

\* ZBuffer.clear with range(self.height - 1) for the rows.
ZBufferClear_short(zb) ==
    [zb EXCEPT !.buffer = [y \in 1..Len(zb.buffer) |->
        [x \in 1..Len(zb.buffer[y]) |->
            IF y <= zb.height - 1 /\ x <= zb.width THEN Inf ELSE zb.buffer[y][x]]]]

\* ZBuffer.clear(): every cell in range(height) x range(width) to float('inf').
ZBufferClear(zb) ==
    [zb EXCEPT !.buffer = [y \in 1..Len(zb.buffer) |->
        [x \in 1..Len(zb.buffer[y]) |->
            IF y <= zb.height /\ x <= zb.width THEN Inf ELSE zb.buffer[y][x]]]]

\* test_and_set with "z <= stored" for the depth test.
test_and_set_leq(zb, x, y, z) ==
    IF ~(0 <= x /\ x < zb.width /\ 0 <= y /\ y < zb.height)
    THEN [zbuffer |-> zb, ret |-> FALSE]
    ELSE IF ~DepthLess(zb.buffer[y + 1][x + 1], z)
    THEN [zbuffer |-> [zb EXCEPT !.buffer[y + 1][x + 1] = z], ret |-> TRUE]
    ELSE [zbuffer |-> zb, ret |-> FALSE]

\* test_and_set that passes the test without storing the new depth.
test_and_set_nostore(zb, x, y, z) ==
    IF ~(0 <= x /\ x < zb.width /\ 0 <= y /\ y < zb.height)
    THEN [zbuffer |-> zb, ret |-> FALSE]
    ELSE IF DepthLess(z, zb.buffer[y + 1][x + 1])
    THEN [zbuffer |-> zb, ret |-> TRUE]
    ELSE [zbuffer |-> zb, ret |-> FALSE]

\* ZBuffer.test_and_set: the buffer after the call and the value returned.
test_and_set(zb, x, y, z) ==
    IF ~(0 <= x /\ x < zb.width /\ 0 <= y /\ y < zb.height)
    THEN [zbuffer |-> zb, ret |-> FALSE]
    ELSE IF DepthLess(z, zb.buffer[y + 1][x + 1])
    THEN [zbuffer |-> [zb EXCEPT !.buffer[y + 1][x + 1] = z], ret |-> TRUE]
    ELSE [zbuffer |-> zb, ret |-> FALSE]

-----------------------------------------------------------------------------
(* rendering/rasterizer.py: edge_function and rasterize_triangle           *)

\* In units of 1/16: the arguments are in quarter pixels.
edge_function(v0, v1, p) ==
    (p[1] - v0[1]) * (v1[2] - v0[2]) - (p[2] - v0[2]) * (v1[1] - v0[1])

\* int(c) of a coordinate c in quarter pixels.
IntOf(c) == TruncDiv(c, 4)

\* Vector2(x + 0.5, y + 0.5)
PixelCentre(x, y) == <<4 * x + 2, 4 * y + 2>>

\* The inside test for counter-clockwise input only.
InsideTest_ccw(w0, w1, w2) == w0 >= 0 /\ w1 >= 0 /\ w2 >= 0

\* The inside test with the third edge left out.
InsideTest_two(w0, w1, w2) ==
    \/ (w0 >= 0 /\ w1 >= 0)
    \/ (w0 <= 0 /\ w1 <= 0)

\* all three edge values share a sign
InsideTest(w0, w1, w2) ==
    \/ (w0 >= 0 /\ w1 >= 0 /\ w2 >= 0)
    \/ (w0 <= 0 /\ w1 <= 0 /\ w2 <= 0)

\* The channel without the upper limit: max(0, int(n/d)).
ClampChannel_low(n, d) ==
    LET s == IF d < 0 THEN -1 ELSE 1
    IN  Max2(0, TruncDiv(s * n, s * d))

\* max(0, min(255, int(n/d)))
ClampChannel(n, d) ==
    LET s == IF d < 0 THEN -1 ELSE 1
    IN  Max2(0, Min2(255, TruncDiv(s * n, s * d)))

\* b0*z0 + b1*z1 + b2*z2 with bi = wi/area, the zi fractions.
InterpolateDepth(w0, w1, w2, area, z0, z1, z2) ==
    Rat(w0 * z0[1] * z1[2] * z2[2] + w1 * z1[1] * z0[2] * z2[2]
            + w2 * z2[1] * z0[2] * z1[2],
        area * z0[2] * z1[2] * z2[2])

\* The clamped, truncated interpolated colour.
InterpolateColor(w0, w1, w2, area, c0, c1, c2) ==
    [k \in 1..3 |-> ClampChannel(w0 * c0[k] + w1 * c1[k] + w2 * c2[k], area)]

\* RasterPixel with pixels_drawn += 1 outside the depth test.
RasterPixel_count(st, x, y, t, area, hasZ) ==
    LET p  == PixelCentre(x, y)
        w0 == edge_function(t.v1, t.v2, p)
        w1 == edge_function(t.v2, t.v0, p)
        w2 == edge_function(t.v0, t.v1, p)
    IN  IF InsideTest(w0, w1, w2)
        THEN LET z == InterpolateDepth(w0, w1, w2, area, t.z0, t.z1, t.z2)
                 ts == IF hasZ THEN test_and_set(st.zbuffer, x, y, z)
                       ELSE [zbuffer |-> st.zbuffer, ret |-> TRUE]
             IN  IF ts.ret
                 THEN [image   |-> [st.image EXCEPT ![y + 1][x + 1] =
                                      InterpolateColor(w0, w1, w2, area,
                                                       t.color0, t.color1, t.color2)],
                       zbuffer |-> ts.zbuffer,
                       ret     |-> st.ret + 1,
                       written |-> st.written \cup {<<x, y>>}]
                 ELSE [st EXCEPT !.zbuffer = ts.zbuffer, !.ret = st.ret + 1]
        ELSE st

\* One iteration of the pixel loop: st is [image, zbuffer, ret, written].
RasterPixel(st, x, y, t, area, hasZ) ==
    LET p  == PixelCentre(x, y)
        w0 == edge_function(t.v1, t.v2, p)
        w1 == edge_function(t.v2, t.v0, p)
        w2 == edge_function(t.v0, t.v1, p)
    IN  IF InsideTest(w0, w1, w2)
        THEN LET z == InterpolateDepth(w0, w1, w2, area, t.z0, t.z1, t.z2)
                 ts == IF hasZ THEN test_and_set(st.zbuffer, x, y, z)
                       ELSE [zbuffer |-> st.zbuffer, ret |-> TRUE]
             IN  IF ts.ret
                 THEN [image   |-> [st.image EXCEPT ![y + 1][x + 1] =
                                      InterpolateColor(w0, w1, w2, area,
                                                       t.color0, t.color1, t.color2)],
                       zbuffer |-> ts.zbuffer,
                       ret     |-> st.ret + 1,
                       written |-> st.written \cup {<<x, y>>}]
                 ELSE [st EXCEPT !.zbuffer = ts.zbuffer]
        ELSE st

\* The two nested loops, rows outermost: pixel number k of the bounding box.
RECURSIVE RasterLoop(_, _, _, _, _, _, _)
RasterLoop(st, k, min_x, max_x, min_y, max_y, cfg) ==
    LET nx == max_x - min_x + 1
        ny == max_y - min_y + 1
    IN  IF k >= nx * ny THEN st
        ELSE RasterLoop(
                RasterPixel(st, min_x + (k % nx), min_y + (k \div nx),
                            cfg.t, cfg.area, cfg.hasZ),
                k + 1, min_x, max_x, min_y, max_y, cfg)

\* rasterize_triangle that guards the division by a zero area (inv_area = 0)
\* instead of skipping the triangle.
rasterize_triangle_guarded(t, w, h, hasZ, zb, img) ==
    LET min_x == Max2(0, IntOf(Min3(t.v0[1], t.v1[1], t.v2[1])))
        max_x == Min2(w - 1, IntOf(Max3(t.v0[1], t.v1[1], t.v2[1])))
        min_y == Max2(0, IntOf(Min3(t.v0[2], t.v1[2], t.v2[2])))
        max_y == Min2(h - 1, IntOf(Max3(t.v0[2], t.v1[2], t.v2[2])))
        area  == edge_function(t.v0, t.v1, t.v2)
        st0   == [image |-> img, zbuffer |-> zb, ret |-> 0, written |-> {}]
    IN  IF min_x > max_x \/ min_y > max_y THEN st0
        ELSE RasterLoop(st0, 0, min_x, max_x, min_y, max_y,
                        [t |-> t, area |-> IF area = 0 THEN 1 ELSE area,
                         hasZ |-> hasZ])


\* rasterize_triangle(v0, v1, v2, color0.., z0.., width, height, zbuffer, image):
\* t is [v0, v1, v2, color0, color1, color2, z0, z1, z2]; hasZ is
\* "zbuffer is not None".  The result is [image, zbuffer, ret, written]:
\* the buffers after the call, the value returned and the set of pixels
\* the call assigned.
rasterize_triangle(t, w, h, hasZ, zb, img) ==
    LET min_x == Max2(0, IntOf(Min3(t.v0[1], t.v1[1], t.v2[1])))
        max_x == Min2(w - 1, IntOf(Max3(t.v0[1], t.v1[1], t.v2[1])))
        min_y == Max2(0, IntOf(Min3(t.v0[2], t.v1[2], t.v2[2])))
        max_y == Min2(h - 1, IntOf(Max3(t.v0[2], t.v1[2], t.v2[2])))
        area  == edge_function(t.v0, t.v1, t.v2)
        st0   == [image |-> img, zbuffer |-> zb, ret |-> 0, written |-> {}]
    IN  IF min_x > max_x \/ min_y > max_y THEN st0
        ELSE IF area = 0 THEN st0     \* abs(area) < 1e-6, area a multiple of 1/16
        ELSE RasterLoop(st0, 0, min_x, max_x, min_y, max_y,
                        [t |-> t, area |-> area, hasZ |-> hasZ])


-----------------------------------------------------------------------------
(* rendering/rasterizer.py: rasterize_triangle_wireframe                   *)

\* The while-loop of one edge, from (x, y) to (x1, y1): ln is
\* [x1, y1, dx, dy, sx, sy, w, h, color], st is [image, ret, written,
\* steps, running].  steps counts the passes that moved on from a point
\* other than (x1, y1).  The loop is unrolled dx + dy + 1 such passes deep:
\* a loop that has still not reached (x1, y1) then is left with running
\* set.
RECURSIVE BresenhamLoop(_, _, _, _, _)
BresenhamLoop(st, x, y, err, ln) ==
    LET Pass(s, px, py, e) ==
            LET st1 == IF 0 <= px /\ px < ln.w /\ 0 <= py /\ py < ln.h
                       THEN [s EXCEPT !.image[py + 1][px + 1] = ln.color,
                                      !.ret = @ + 1,
                                      !.written = @ \cup {<<px, py>>}]
                       ELSE s
                e2   == 2 * e
                stepx == e2 > -ln.dy
                stepy == e2 < ln.dx
                err1 == (IF stepx THEN e - ln.dy ELSE e)
                err2 == (IF stepy THEN err1 + ln.dx ELSE err1)
            IN  IF px = ln.x1 /\ py = ln.y1 THEN st1
                ELSE IF s.steps > ln.dx + ln.dy THEN [st1 EXCEPT !.running = TRUE]
                ELSE BresenhamLoop([st1 EXCEPT !.steps = @ + 1],
                                   IF stepx THEN px + ln.sx ELSE px,
                                   IF stepy THEN py + ln.sy ELSE py,
                                   err2, ln)
    IN  CHOOSE out \in {Pass(s, px, py, e) :
                            s \in {st}, px \in {x}, py \in {y}, e \in {err}} : TRUE

\* One edge drawn with sx = 1 whichever way the edge runs.
WireEdge_right(st, v_start, v_end, color, w, h) ==
    LET x0 == IntOf(v_start[1])
        y0 == IntOf(v_start[2])
        x1 == IntOf(v_end[1])
        y1 == IntOf(v_end[2])
        dx == Abs(x1 - x0)
        dy == Abs(y1 - y0)
        sy == IF y0 < y1 THEN 1 ELSE -1
    IN  CHOOSE out \in
            {[r EXCEPT !.steps = 0, !.edges = Append(@, r.steps)] :
                 r \in {BresenhamLoop([s EXCEPT !.steps = 0], x0, y0, dx - dy,
                            [x1 |-> x1, y1 |-> y1, dx |-> dx, dy |-> dy,
                             sx |-> 1, sy |-> sy, w |-> w, h |-> h,
                             color |-> color]) : s \in {st}}} : TRUE

\* One edge (v_start, v_end) of the outline; the passes of its loop are
\* appended to edges.
WireEdge(st, v_start, v_end, color, w, h) ==
    LET x0 == IntOf(v_start[1])
        y0 == IntOf(v_start[2])
        x1 == IntOf(v_end[1])
        y1 == IntOf(v_end[2])
        dx == Abs(x1 - x0)
        dy == Abs(y1 - y0)
        sx == IF x0 < x1 THEN 1 ELSE -1
        sy == IF y0 < y1 THEN 1 ELSE -1
    IN  CHOOSE out \in
            {[r EXCEPT !.steps = 0, !.edges = Append(@, r.steps)] :
                 r \in {BresenhamLoop([s EXCEPT !.steps = 0], x0, y0, dx - dy,
                            [x1 |-> x1, y1 |-> y1, dx |-> dx, dy |-> dy,
                             sx |-> sx, sy |-> sy, w |-> w, h |-> h,
                             color |-> color]) : s \in {st}}} : TRUE

\* rasterize_triangle_wireframe(v0, v1, v2, color, width, height, image):
\* [image, ret, written, steps, running, edges].  ret counts assignments,
\* so a pixel shared by two edges is counted twice; edges lists the passes
\* of the three loops.
rasterize_triangle_wireframe(v0, v1, v2, color, w, h, img) ==
    LET st0 == [image |-> img, ret |-> 0, written |-> {}, steps |-> 0,
                running |-> FALSE, edges |-> <<>>]
        st1 == WireEdge(st0, v0, v1, color, w, h)
        st2 == WireEdge(st1, v1, v2, color, w, h)
    IN  WireEdge(st2, v2, v0, color, w, h)

-----------------------------------------------------------------------------
(* rendering/triangulation.py                                              *)

\* triangulate_face building a strip, (i-1, i, i+1), instead of a fan.
triangulate_face_strip(face_vertices) ==
    IF Len(face_vertices) < 3
    THEN [face_vertices |-> face_vertices, ret |-> <<>>]
    ELSE IF Len(face_vertices) = 3
    THEN [face_vertices |-> face_vertices, ret |-> <<face_vertices>>]
    ELSE [face_vertices |-> face_vertices,
          ret |-> [i \in 1..(Len(face_vertices) - 2) |->
                      <<face_vertices[i], face_vertices[i + 1], face_vertices[i + 2]>>]]

\* triangulate_face(face_vertices): [face_vertices, ret], the list passed
\* in as the call leaves it and the list of triangles returned.
triangulate_face(face_vertices) ==
    IF Len(face_vertices) < 3
    THEN [face_vertices |-> face_vertices, ret |-> <<>>]
    ELSE IF Len(face_vertices) = 3
    THEN [face_vertices |-> face_vertices, ret |-> <<face_vertices>>]
    ELSE [face_vertices |-> face_vertices,
          ret |-> [i \in 1..(Len(face_vertices) - 2) |->
                      <<face_vertices[1], face_vertices[i + 1], face_vertices[i + 2]>>]]

\* triangulate_model(model): the triangles of all faces, in face order.
RECURSIVE triangulate_model(_)
triangulate_model(faces) ==
    IF faces = <<>> THEN <<>>
    ELSE triangulate_face(Head(faces)).ret \o triangulate_model(Tail(faces))


-----------------------------------------------------------------------------
(* Inputs.                                                                 *)

\* Screen-space vertices, in quarter pixels: three left of the framebuffer
\* with x in (-1, 0), the centres of the first and of the last pixel of the
\* largest framebuffer, one vertex right of it and one below it.
Points == << <<-3, 2>>, <<-1, 6>>, <<-3, 6>>, <<2, 2>>,
             <<4 * MaxW - 2, 4 * MaxH - 2>>, <<4 * MaxW + 1, 1>>,
             <<5, 4 * MaxH + 1>> >>

\* Which triples of Points are drawn: every set of three, every point
\* three times, and each point twice with its successor.
PointTriples ==
    {ijk \in (1..Len(Points)) \X (1..Len(Points)) \X (1..Len(Points)) :
        \/ ijk[1] < ijk[2] /\ ijk[2] < ijk[3]
        \/ ijk[1] = ijk[2] /\ ijk[3] \in {ijk[1], ijk[1] + 1}}

\* Per-vertex colours and depths of a direct rasterize_triangle call: a
\* flat red triangle at depth 1/4, a flat blue one at depth 1/2, and one
\* with three colours (channels beyond 0..255) and three depths, drawn with
\* and without the Z-buffer.
Materials ==
    { [color0 |-> <<255, 0, 0>>, color1 |-> <<255, 0, 0>>, color2 |-> <<255, 0, 0>>,
       z0 |-> <<1, 4>>, z1 |-> <<1, 4>>, z2 |-> <<1, 4>>, hasZ |-> TRUE],
      [color0 |-> <<0, 0, 255>>, color1 |-> <<0, 0, 255>>, color2 |-> <<0, 0, 255>>,
       z0 |-> <<1, 2>>, z1 |-> <<1, 2>>, z2 |-> <<1, 2>>, hasZ |-> TRUE],
      [color0 |-> <<300, -20, 100>>, color1 |-> <<10, 200, 255>>, color2 |-> <<0, 0, 0>>,
       z0 |-> <<-1, 1>>, z1 |-> <<1, 2>>, z2 |-> <<1, 1>>, hasZ |-> TRUE],
      [color0 |-> <<300, -20, 100>>, color1 |-> <<10, 200, 255>>, color2 |-> <<0, 0, 0>>,
       z0 |-> <<-1, 1>>, z1 |-> <<1, 2>>, z2 |-> <<1, 1>>, hasZ |-> FALSE] }

Triangle(a, b, c, m) ==
    [v0 |-> a, v1 |-> b, v2 |-> c,
     color0 |-> m.color0, color1 |-> m.color1, color2 |-> m.color2,
     z0 |-> m.z0, z1 |-> m.z1, z2 |-> m.z2]

\* Depths handed to ZBuffer.test_and_set directly.
Depths == {<<-1, 2>>, <<0, 1>>, <<1, 2>>}

\* Background colours: Renderer.clear's default and RenderWidget's.
ClearColors == {<<0, 0, 0>>, <<20, 20, 30>>}

\* A mesh after the view-projection transform, in halves: vertex 4 is
\* beyond the depth range, vertex 5 projects left of the framebuffer.
NdcVertices == << <<-2, 2, 0>>, <<2, 2, 1>>, <<-2, -2, -1>>,
                  <<2, -2, 2>>, <<0, 0, 3>>, <<-3, 1, -2>> >>

\* Face lists: triangles, a quad, a face with a vertex beyond the depth
\* range, faces with an index out of range, a face of two indices.
FaceLists ==
    { << <<0, 1, 2>> >>, << <<1, 3, 2>> >>, << <<0, 1, 3, 2>> >>,
      << <<5, 0, 3>> >>, << <<0, 3, 4>> >>, << <<0, 3, 4>>, <<5, 1, 2>> >>,
      << <<0, 1, 2>>, <<5, 0, 3>> >>, << <<5, 0, 3>>, <<0, 1, 2>> >>,
      << <<0, 1>>, <<1, 3, 2>> >>, << <<0, -1, 2>>, <<5, 2, 3>> >>,
      << <<0, 1, 6>>, <<0, 1, 2>> >>, <<>> }

RECURSIVE SeqsUpTo(_, _)
SeqsUpTo(S, n) ==
    IF n = 0 THEN {<<>>}
    ELSE LET shorter == SeqsUpTo(S, n - 1)
         IN  shorter \cup {Append(q, e) : q \in shorter, e \in S}

Models ==
    {[vertices |-> NdcVertices, faces |-> fs] : fs \in FaceLists}
    \cup {[vertices |-> <<>>, faces |-> <<<<0, 1, 2>>>>]}

-----------------------------------------------------------------------------
(* math/math_module: rationals, Vector3, Matrix3x3, Matrix4x4              *)
(*                                                                         *)
(* A float of the camera and matrix code is a reduced fraction <<n, d>>,   *)
(* d > 0; a Vector3 is a triple of them; a matrix is a sequence of rows.   *)
(* The arithmetic is exact, so an identity below is one of real            *)
(* arithmetic, met by the source up to the rounding of its binary64        *)
(* operations.                                                             *)

Q(n) == <<n, 1>>

\* The denominators are divided by their common factor before any product,
\* which keeps the intermediate integers small.
QAdd(a, b) ==
    LET g == Gcd(a[2], b[2])
    IN  Rat(a[1] * (b[2] \div g) + b[1] * (a[2] \div g), (a[2] \div g) * b[2])

QNeg(a) == <<-a[1], a[2]>>

QSub(a, b) == QAdd(a, QNeg(b))

QMul(a, b) ==
    LET x == Rat(a[1], b[2])
        y == Rat(b[1], a[2])
    IN  Rat(x[1] * y[1], x[2] * y[2])

\* a / b, b # 0
QDiv(a, b) == QMul(a, Rat(b[2], b[1]))

QAbs(a) == <<Abs(a[1]), a[2]>>

QLess(a, b) == QSub(a, b)[1] < 0

\* int(a): truncation toward zero
QInt(a) == TruncDiv(a[1], a[2])

\* math.sqrt of n, exact on the squares the cameras of the model produce
\* (the integer part on another n).
ISqrt(n) == CHOOSE k \in 0..n : k * k <= n /\ n < (k + 1) * (k + 1)

QSqrt(a) == <<ISqrt(a[1]), ISqrt(a[2])>>

\* Vector3(x, y, z) of integers
Vector3(x, y, z) == <<Q(x), Q(y), Q(z)>>

\* Vector3.__add__
Vector3_add(a, b) == <<QAdd(a[1], b[1]), QAdd(a[2], b[2]), QAdd(a[3], b[3])>>

\* Vector3.__sub__
Vector3_sub(a, b) == <<QSub(a[1], b[1]), QSub(a[2], b[2]), QSub(a[3], b[3])>>

\* Vector3.scalarmul
scalarmul(a, b) == QAdd(QAdd(QMul(a[1], b[1]), QMul(a[2], b[2])), QMul(a[3], b[3]))

\* Vector3.vectormul
vectormul(a, b) ==
    <<QSub(QMul(a[2], b[3]), QMul(a[3], b[2])),
      QSub(QMul(a[3], b[1]), QMul(a[1], b[3])),
      QSub(QMul(a[1], b[2]), QMul(a[2], b[1]))>>

\* Vector3.length
length(a) == QSqrt(scalarmul(a, a))

\* Vector3.normalize: a length below 1e-9 gives the zero vector.
normalize(a) ==
    LET l == length(a)
    IN  IF l[1] = 0 THEN Vector3(0, 0, 0)
        ELSE <<QDiv(a[1], l), QDiv(a[2], l), QDiv(a[3], l)>>

\* data=None
None == <<"None">>

IdentityData(N) == [i \in 1..N |-> [j \in 1..N |-> IF i = j THEN Q(1) ELSE Q(0)]]

ZeroData(N) == [i \in 1..N |-> [j \in 1..N |-> Q(0)]]

\* The constructor shared by Matrix3x3 (N = 3) and Matrix4x4 (N = 4):
\* [ok, data] for a matrix, [ok, error] for a raised exception.  The flags
\* are tested first, so data is looked at only when both are off.
MatrixInit(N, data, identity, zero) ==
    IF identity THEN [ok |-> TRUE, data |-> IdentityData(N)]
    ELSE IF zero THEN [ok |-> TRUE, data |-> ZeroData(N)]
    ELSE IF data # None
    THEN IF Len(data) # N THEN [ok |-> FALSE, error |-> "ValueError"]
         ELSE IF \E i \in 1..N : Len(data[i]) # N
         THEN [ok |-> FALSE, error |-> "ValueError"]
         ELSE [ok |-> TRUE, data |-> [i \in 1..N |-> [j \in 1..N |-> data[i][j]]]]
    ELSE [ok |-> TRUE, data |-> IdentityData(N)]

\* Matrix3x3(data, identity, zero)
Matrix3x3(data, identity, zero) == MatrixInit(3, data, identity, zero)

\* Matrix4x4(data, identity, zero)
Matrix4x4(data, identity, zero) == MatrixInit(4, data, identity, zero)

\* Matrix4x4.__mul__ with a Vector3: the matrix rows applied to the column
\* (x, y, z, 1), divided by the fourth component unless that is zero.
Matrix4x4_mul_Vector3(m, v) ==
    LET result == [i \in 1..4 |->
                      QAdd(QAdd(QAdd(QMul(m[i][1], v[1]), QMul(m[i][2], v[2])),
                                QMul(m[i][3], v[3])), m[i][4])]
    IN  IF result[4][1] # 0
        THEN <<QDiv(result[1], result[4]), QDiv(result[2], result[4]),
               QDiv(result[3], result[4])>>
        ELSE <<result[1], result[2], result[3]>>

\* Matrix4x4.__mul__ with a Matrix4x4
Matrix4x4_mul(a, b) ==
    [i \in 1..4 |-> [j \in 1..4 |->
        QAdd(QAdd(QAdd(QAdd(Q(0), QMul(a[i][1], b[1][j])), QMul(a[i][2], b[2][j])),
                  QMul(a[i][3], b[3][j])), QMul(a[i][4], b[4][j]))]]

-----------------------------------------------------------------------------
(* math/math module/vector2.py, math/math_module/vector3.py, vector4.py:   *)
(* the operators + - / of the three classes                                *)
(*                                                                         *)
(* A vector object is [class, value], value the tuple of its components.   *)
(* A call gives [ret, self, other]: what it returned or raised, and the    *)
(* two operands as they are after the call.                                *)

Vector(class, value) == [class |-> class, value |-> value]

Raised(exception) == [class |-> exception, value |-> <<>>]

\* Vector2.__add__: isinstance(Vector2, other) has its arguments in the
\* wrong order, and with an instance as its second argument raises
\* TypeError itself.
Vector2_add(a, b) == [ret |-> Raised("TypeError"), self |-> a, other |-> b]

\* Vector2.__sub__: the same test, with no return statement after it.
Vector2_sub(a, b) == [ret |-> Raised("TypeError"), self |-> a, other |-> b]

\* Vector2.__truediv__ returns the tuple of the quotients.
Vector2_truediv(a, s) ==
    [ret |-> IF s[1] = 0 THEN Raised("ZeroDivisionError")
             ELSE Vector("tuple", <<QDiv(a.value[1], s), QDiv(a.value[2], s)>>),
     self |-> a, other |-> s]

\* Vector3.__add__ and Vector4.__add__ on objects
VectorN_add(a, b) ==
    [ret |-> IF b.class # a.class THEN Raised("TypeError")
             ELSE Vector(a.class, [k \in 1..Len(a.value) |->
                                      QAdd(a.value[k], b.value[k])]),
     self |-> a, other |-> b]

\* Vector3.__sub__ and Vector4.__sub__ on objects
VectorN_sub(a, b) ==
    [ret |-> IF b.class # a.class THEN Raised("TypeError")
             ELSE Vector(a.class, [k \in 1..Len(a.value) |->
                                      QSub(a.value[k], b.value[k])]),
     self |-> a, other |-> b]

\* Vector3.__truediv__ and Vector4.__truediv__
VectorN_truediv(a, s) ==
    [ret |-> IF s[1] = 0 THEN Raised("ZeroDivisionError")
             ELSE Vector(a.class, [k \in 1..Len(a.value) |-> QDiv(a.value[k], s)]),
     self |-> a, other |-> s]

\* a + b, a - b, a / s by the class of a
VectorOp(op, a, b) ==
    IF a.class = "Vector2"
    THEN CASE op = "add" -> Vector2_add(a, b)
           [] op = "sub" -> Vector2_sub(a, b)
           [] op = "truediv" -> Vector2_truediv(a, b)
    ELSE CASE op = "add" -> VectorN_add(a, b)
           [] op = "sub" -> VectorN_sub(a, b)
           [] op = "truediv" -> VectorN_truediv(a, b)

-----------------------------------------------------------------------------
(* rendering/camera.py                                                     *)

\* 1.0 / tan(fov / 2.0) for a field of view in degrees: 1 at 90 degrees;
\* at 45 degrees 1 + sqrt(2), for which the model takes 169/70.
FocalLength(fov) == IF fov = 90 THEN Q(1) ELSE <<169, 70>>

\* Camera(position, target, up): <<>> stands for an argument left out.
Camera(position, target, up) ==
    [position     |-> IF position # <<>> THEN position ELSE Vector3(0, 0, 5),
     target       |-> IF target # <<>> THEN target ELSE Vector3(0, 0, 0),
     up           |-> IF up # <<>> THEN up ELSE Vector3(0, 1, 0),
     fov          |-> 45,
     aspect_ratio |-> Q(1),
     near_plane   |-> <<1, 10>>,
     far_plane    |-> Q(1000)]

\* Camera.get_view_matrix: the rows hold right, up and -forward in their
\* columns and the translation in the fourth row.
get_view_matrix(cam) ==
    LET forward == normalize(Vector3_sub(cam.target, cam.position))
        right   == normalize(vectormul(forward, cam.up))
        up      == normalize(vectormul(right, forward))
    IN  Matrix4x4(<< <<right[1], up[1], QNeg(forward[1]), Q(0)>>,
                     <<right[2], up[2], QNeg(forward[2]), Q(0)>>,
                     <<right[3], up[3], QNeg(forward[3]), Q(0)>>,
                     <<QNeg(scalarmul(right, cam.position)),
                       QNeg(scalarmul(up, cam.position)),
                       scalarmul(forward, cam.position), Q(1)>> >>,
                  FALSE, FALSE)

\* Camera.set_aspect_ratio(width, height): the camera after the call.
set_aspect_ratio(cam, w, h) ==
    IF h > 0 THEN [cam EXCEPT !.aspect_ratio = Rat(w, h)] ELSE cam

\* Camera.get_projection_matrix: no test of near_plane and far_plane; the
\* divisions raise ZeroDivisionError on a zero divisor.
get_projection_matrix(cam) ==
    LET f == FocalLength(cam.fov)
        d == QSub(cam.near_plane, cam.far_plane)
    IN  IF cam.aspect_ratio[1] = 0 \/ d[1] = 0
        THEN [ok |-> FALSE, error |-> "ZeroDivisionError"]
        ELSE Matrix4x4(<< <<QDiv(f, cam.aspect_ratio), Q(0), Q(0), Q(0)>>,
                          <<Q(0), f, Q(0), Q(0)>>,
                          <<Q(0), Q(0), QDiv(QAdd(cam.far_plane, cam.near_plane), d),
                            Q(-1)>>,
                          <<Q(0), Q(0),
                            QDiv(QMul(QMul(Q(2), cam.far_plane), cam.near_plane), d),
                            Q(0)>> >>,
                       FALSE, FALSE)

\* Camera.get_view_projection_matrix: projection * view
get_view_projection_matrix(cam) ==
    LET view       == get_view_matrix(cam)
        projection == get_projection_matrix(cam)
    IN  IF ~projection.ok THEN projection
        ELSE [ok |-> TRUE, data |-> Matrix4x4_mul(projection.data, view.data)]

\* move that leaves the target where it was: the camera turns as it moves.
move_position_only(cam, delta) ==
    [cam EXCEPT !.position = Vector3_add(cam.position, delta)]

\* Camera.move(delta)
move(cam, delta) ==
    [cam EXCEPT !.position = Vector3_add(cam.position, delta),
                !.target   = Vector3_add(cam.target, delta)]

-----------------------------------------------------------------------------
(* rendering/texture.py: the binary64 arithmetic of the texture sampler    *)
(*                                                                         *)
(* The sampler multiplies a texture coordinate by width - 1 and takes the  *)
(* integer and the fractional part of the product, so whether u = i /      *)
(* (width - 1) comes back as the integer i is decided by the rounding of   *)
(* the division and of the product.  The floats of the sampler are         *)
(* therefore modelled with their rounding (nearest, ties to even, 53       *)
(* significant bits).  A float is written                                  *)
(*     [b, t, s]   for b + t / 2^s,   b and t integers, |t / 2^s| < 1,     *)
(* which holds the dyadic coordinates and blends of few bits (s small) as  *)
(* well as the values a few units in the last place away from an integer   *)
(* (s near 52, t small) without an integer of more than 31 bits; and the   *)
(* quotient of two integers that is not dyadic is written                  *)
(*     [i, n, t, E] for (i + t / 2^E) / n,                                 *)
(* the float nearest to i / n, whose significand is (i * 2^E + t) / n.     *)

Float(b, t, s) == [b |-> b, t |-> t, s |-> s]

RECURSIVE Pow2(_)
Pow2(k) == IF k = 0 THEN 1 ELSE 2 * Pow2(k - 1)

\* floor(log2(n)), n >= 1
RECURSIVE Log2(_)
Log2(n) == IF n < 2 THEN 0 ELSE 1 + Log2(n \div 2)

IsPow2(n) == n = Pow2(Log2(n))

\* The same value with t odd or zero, and for s up to 20 with b its
\* integer part (toward zero) and t of the sign of the value.
RECURSIVE Normal(_)
Normal(x) ==
    IF x.t = 0 THEN Float(x.b, 0, 0)
    ELSE IF x.s > 0 /\ x.t % 2 = 0 THEN Normal(Float(x.b, x.t \div 2, x.s - 1))
    ELSE IF x.s > 20 THEN x
    ELSE LET d   == Pow2(x.s)
             num == x.b * d + x.t
             b   == TruncDiv(num, d)
         IN  Float(b, num - b * d, x.s)

\* t / 2^shift rounded to the nearest integer, a tie to the even one.
RoundHalfEven(t, shift) ==
    IF shift >= 30 THEN 0
    ELSE LET d == Pow2(shift)
             q == t \div d
             r == t - q * d
         IN  IF 2 * r < d THEN q
             ELSE IF 2 * r > d THEN q + 1
             ELSE IF q % 2 = 0 THEN q ELSE q + 1

\* The binary64 nearest to x, for x >= 0: a value in [2^k, 2^(k+1)) keeps
\* the multiples of 2^(k - 52).
RoundPositive(x) ==
    IF x.b = 0 THEN x
    ELSE LET k == IF x.t < 0 /\ IsPow2(x.b) THEN Log2(x.b) - 1 ELSE Log2(x.b)
             p == 52 - k
         IN  IF x.s <= p THEN x
             ELSE Normal(Float(x.b, RoundHalfEven(x.t, x.s - p), p))

FNeg(x) == Float(-x.b, -x.t, x.s)

FNegative(x) == x.b < 0 \/ (x.b = 0 /\ x.t < 0)

\* The binary64 nearest to x.
Round64(x) ==
    LET n == Normal(x)
    IN  IF FNegative(n) THEN FNeg(RoundPositive(FNeg(n))) ELSE RoundPositive(n)

\* 2^e mod n
RECURSIVE PowMod(_, _)
PowMod(e, n) == IF e = 0 THEN 1 % n ELSE (2 * PowMod(e - 1, n)) % n

\* The least j >= 0 with i * 2^j >= n, for 0 < i
RECURSIVE Doublings(_, _)
Doublings(i, n) == IF i >= n THEN 0 ELSE 1 + Doublings(2 * i, n)

\* The float i / n of two integers, 0 <= i <= n, 0 < n: exact when the
\* reduced denominator is a power of two; otherwise the significand is
\* i * 2^E / n rounded to an integer of 53 bits, off by t / n.
FDivInt(i, n) ==
    LET g == Gcd(i, n)
        a == i \div g
        c == n \div g
    IN  IF i = 0 THEN Float(0, 0, 0)
        ELSE IF IsPow2(c) THEN Normal(Float(0, a, Log2(c)))
        ELSE LET E == 52 + Doublings(i, n)
                 r == ((i % n) * PowMod(E, n)) % n
             IN  [i |-> i, n |-> n, t |-> IF 2 * r < n THEN -r ELSE n - r, E |-> E]

IsQuotient(x) == "E" \in DOMAIN x

\* x * n for a float x and an integer n; a quotient is multiplied by its
\* own denominator, as u * (self.width - 1) is.
FMulInt(x, n) ==
    IF IsQuotient(x) THEN Round64(Float(x.i, x.t, x.E))
    ELSE Round64(Float(x.b * n, x.t * n, x.s))

\* x + y, for scales s within 30 of each other.
FAdd(x, y) ==
    LET s == Max2(x.s, y.s)
    IN  Round64(Float(x.b + y.b,
                      (IF x.t = 0 THEN 0 ELSE x.t * Pow2(s - x.s))
                      + (IF y.t = 0 THEN 0 ELSE y.t * Pow2(s - y.s)), s))

\* x - n and n - x for an integer n
FSubInt(x, n) == Round64(Float(x.b - n, x.t, x.s))

FRSubInt(n, x) == Round64(Float(n - x.b, -x.t, x.s))

\* int(x): truncation toward zero
FInt(x) ==
    IF x.t = 0 THEN x.b
    ELSE IF x.b > 0 /\ x.t < 0 THEN x.b - 1
    ELSE IF x.b < 0 /\ x.t > 0 THEN x.b + 1
    ELSE x.b

\* math.floor(x)
FFloor(x) == IF x.t < 0 THEN x.b - 1 ELSE x.b

\* max(0.0, min(1.0, x)); a quotient i / n with 0 <= i <= n is within.
FClamp01(x) ==
    IF IsQuotient(x) THEN x
    ELSE IF FNegative(x) THEN Float(0, 0, 0)
    ELSE IF x.b > 1 \/ (x.b = 1 /\ x.t > 0) THEN Float(1, 0, 0)
    ELSE x

\* x - math.floor(x); a quotient strictly between 0 and 1 is itself.
FFrac(x) == IF IsQuotient(x) THEN x ELSE FSubInt(x, FFloor(x))

-----------------------------------------------------------------------------
(* rendering/texture.py: Texture                                           *)
(*                                                                         *)
(* A texture is [width, height, data]; data is None until an image is      *)
(* loaded, then data[y + 1][x + 1] is the pixel (x, y).                    *)

\* Texture(): nothing loaded
Texture == [width |-> 0, height |-> 0, data |-> None]

Unloaded(tex) == tex.data = None \/ tex.width = 0 \/ tex.height = 0

\* The wrap mode applied to a coordinate; any other mode leaves it alone.
Wrap(u, wrap_mode) ==
    IF wrap_mode = "repeat" THEN FFrac(u)
    ELSE IF wrap_mode = "clamp" THEN FClamp01(u)
    ELSE u

\* data[y][x] of a Python list of lists: an index in [-len, 0) counts from
\* the end, one outside [-len, len) raises IndexError.  [ok, color].
Index(tex, x, y) ==
    IF y < -tex.height \/ y >= tex.height \/ x < -tex.width \/ x >= tex.width
    THEN [ok |-> FALSE, color |-> <<0, 0, 0>>]
    ELSE [ok |-> TRUE,
          color |-> tex.data[(IF y < 0 THEN y + tex.height ELSE y) + 1]
                            [(IF x < 0 THEN x + tex.width ELSE x) + 1]]

\* Texture.sample(u, v, wrap_mode): [ret, raised, reads], reads the set of
\* the indices <<x, y>> of data that the call used.
sample(tex, u, v, wrap_mode) ==
    IF Unloaded(tex)
    THEN [ret |-> <<128, 128, 128>>, raised |-> FALSE, reads |-> {}]
    ELSE LET x == Max2(0, Min2(tex.width - 1,
                               FInt(FMulInt(Wrap(u, wrap_mode), tex.width - 1))))
             y == Max2(0, Min2(tex.height - 1,
                               FInt(FMulInt(Wrap(v, wrap_mode), tex.height - 1))))
         IN  [ret |-> Index(tex, x, y).color, raised |-> FALSE, reads |-> {<<x, y>>}]

\* int(c_a * f + c_b * (1 - f)): the weights exchanged
Blend_swapped(c_a, c_b, f) ==
    FInt(FAdd(FMulInt(f, c_a), FMulInt(FRSubInt(1, f), c_b)))

\* int(c_a * (1 - f) + c_b * f) on one channel
Blend(c_a, c_b, f) ==
    FInt(FAdd(FMulInt(FRSubInt(1, f), c_a), FMulInt(f, c_b)))

\* Texture.sample_bilinear(u, v, wrap_mode): [ret, raised, reads].  The
\* second row is blended between c01 and c10.
sample_bilinear(tex, u, v, wrap_mode) ==
    IF Unloaded(tex)
    THEN [ret |-> <<128, 128, 128>>, raised |-> FALSE, reads |-> {}]
    ELSE LET x_float == FMulInt(Wrap(u, wrap_mode), tex.width - 1)
             y_float == FMulInt(Wrap(v, wrap_mode), tex.height - 1)
             x0 == FInt(x_float)
             y0 == FInt(y_float)
             x1 == Min2(x0 + 1, tex.width - 1)
             y1 == Min2(y0 + 1, tex.height - 1)
             fx == FSubInt(x_float, x0)
             fy == FSubInt(y_float, y0)
             c00 == Index(tex, x0, y0)
             c10 == Index(tex, x1, y0)
             c01 == Index(tex, x0, y1)
             c11 == Index(tex, x1, y1)
             reads == {<<x0, y0>>, <<x1, y0>>, <<x0, y1>>, <<x1, y1>>}
         IN  IF ~c00.ok \/ ~c10.ok \/ ~c01.ok \/ ~c11.ok
             THEN [ret |-> <<0, 0, 0>>, raised |-> TRUE, reads |-> reads]
             ELSE LET c0 == [k \in 1..3 |-> Blend(c00.color[k], c10.color[k], fx)]
                      c1 == [k \in 1..3 |-> Blend(c01.color[k], c10.color[k], fx)]
                  IN  [ret |-> [k \in 1..3 |->
                                   FInt(FAdd(FMulInt(FRSubInt(1, fy), c0[k]),
                                             FMulInt(fy, c1[k])))],
                       raised |-> FALSE, reads |-> reads]

-----------------------------------------------------------------------------
(* rendering/triangulation.py: normals                                     *)

\* list[i] of a Python list: an index in [-len, 0) counts from the end.
InList(list, i) == -Len(list) <= i /\ i < Len(list)

Item(list, i) == list[(IF i < 0 THEN i + Len(list) ELSE i) + 1]

\* compute_vertex_normals indexes vertices[triangle[k]] for every triangle
\* of every face: an index outside [-n, n) raises IndexError.
NormalsRaise(model) ==
    LET n  == Len(model.vertices)
        ts == triangulate_model(model.faces)
    IN  \E i \in 1..Len(ts) : \E k \in 1..3 : ts[i][k] >= n \/ ts[i][k] < -n

\* compute_face_normal(vertex1, vertex2, vertex3)
compute_face_normal(vertex1, vertex2, vertex3) ==
    normalize(vectormul(Vector3_sub(vertex2, vertex1), Vector3_sub(vertex3, vertex1)))

\* The normals of the triangles of all faces, in order.
FaceNormals(vertices, triangles) ==
    [i \in 1..Len(triangles) |->
        compute_face_normal(Item(vertices, triangles[i][1]),
                            Item(vertices, triangles[i][2]),
                            Item(vertices, triangles[i][3]))]

\* vertex_normals[vertex_idx] after one triangle: its normal is added once
\* for each corner of the triangle that is vertex_idx.
RECURSIVE AddCorners(_, _, _, _, _)
AddCorners(sum, triangle, normal, vertex_idx, k) ==
    IF k > Len(triangle) THEN sum
    ELSE AddCorners(IF triangle[k] = vertex_idx /\ 0 <= vertex_idx
                    THEN Vector3_add(sum, normal) ELSE sum,
                    triangle, normal, vertex_idx, k + 1)

\* vertex_normals[vertex_idx] after the first i triangles.
RECURSIVE AccumulatedNormal(_, _, _, _)
AccumulatedNormal(vertex_idx, triangles, face_normals, i) ==
    IF i = 0 THEN Vector3(0, 0, 0)
    ELSE CHOOSE out \in
             {AddCorners(sum, triangles[i], face_normals[i], vertex_idx, 1) :
                 sum \in {AccumulatedNormal(vertex_idx, triangles, face_normals, i - 1)}} :
             TRUE

\* The normalized sum as it is: no default for a short one.
DefaultNormal_none(normalized) == normalized

\* A normalized sum of length below 1e-6 is replaced by (0, 0, 1).
DefaultNormal(normalized) ==
    IF QLess(length(normalized), <<1, 1000000>>) THEN Vector3(0, 0, 1)
    ELSE normalized

\* compute_vertex_normals(vertices, faces): [ret, raised], raised true for
\* an IndexError.
compute_vertex_normals(vertices, faces) ==
    IF vertices = <<>> \/ faces = <<>> THEN [ret |-> <<>>, raised |-> FALSE]
    ELSE IF NormalsRaise([vertices |-> vertices, faces |-> faces])
    THEN [ret |-> <<>>, raised |-> TRUE]
    ELSE CHOOSE out \in
             UNION {{[ret |-> [v \in 1..Len(vertices) |->
                                  DefaultNormal(normalize(
                                      AccumulatedNormal(v - 1, triangles, face_normals,
                                                        Len(triangles))))],
                      raised |-> FALSE] :
                        face_normals \in {FaceNormals(vertices, triangles)}} :
                    triangles \in {triangulate_model(faces)}} :
             TRUE

-----------------------------------------------------------------------------
(* rendering/lighting.py                                                   *)

\* Light(color=color).color for a tuple of three channels: the channels are
\* divided by 255 when the first one is above 1.0 and kept otherwise.
Light(color) ==
    IF QLess(Q(1), color[1])
    THEN <<QDiv(color[1], Q(255)), QDiv(color[2], Q(255)), QDiv(color[3], Q(255))>>
    ELSE <<color[1], color[2], color[3]>>

\* The end of phong_lighting: final_color, the sum of the ambient, the
\* diffuse and the specular term, scaled to bytes and clamped.
phong_lighting(final_color) ==
    [k \in 1..3 |-> Max2(0, Min2(255, QInt(QMul(final_color[k], Q(255)))))]

-----------------------------------------------------------------------------
(* rendering/renderer.py                                                   *)

RenderSettings == [draw_wireframe |-> FALSE, use_texture |-> FALSE,
                   use_lighting |-> FALSE, base_color |-> <<200, 200, 200>>]

\* project_point that rejects a depth of exactly 1.0 as well.
project_point_geq(tp, w, h) ==
    IF Abs(tp[3]) >= 2
    THEN [ok |-> FALSE, v |-> <<0, 0>>, depth |-> <<0, 1>>]
    ELSE [ok |-> TRUE,
          v |-> <<(tp[1] + 2) * w, (2 - tp[2]) * h>>,
          depth |-> Rat(tp[3], 2)]

\* Renderer.project_point(point, view_proj_matrix), on tp, the value of
\* view_proj_matrix * point in halves: [ok, v, depth], ok false for None.
project_point(tp, w, h) ==
    IF Abs(tp[3]) > 2
    THEN [ok |-> FALSE, v |-> <<0, 0>>, depth |-> <<0, 1>>]
    ELSE [ok |-> TRUE,
          v |-> <<(tp[1] + 2) * w, (2 - tp[2]) * h>>,
          depth |-> Rat(tp[3], 2)]

\* color * tex_color / 255.0 on each channel, through int().  The product
\* of two integers divided by 255.0 is an integer or at least 1/255 from
\* one, so int() of it is the truncated quotient.
Modulated(color, tex_color) ==
    [k \in 1..3 |-> TruncDiv(color[k] * tex_color[k], 255)]

\* The lighting step of the loop on the colour the texture step left.
LitColor(color, lit_color, st) ==
    IF st.use_texture /\ st.texture # <<>>
    THEN Modulated(lit_color, color)
    ELSE lit_color

\* One pass of the loop of compute_vertex_colors, for the vertex idx.  st
\* is the renderer's settings, and where texturing or lighting is on also
\* texture, <<>> for self.texture = None and <<t>> for a Texture t, and
\* final, the Phong sum of each vertex.
VertexColor(idx, model, st) ==
    LET sampled == /\ st.use_texture
                   /\ st.texture # <<>>
                   /\ ~Unloaded(st.texture[1])
                   /\ model.tex_coords # <<>>
                   /\ idx < Len(model.tex_coords)
                   /\ Len(model.tex_coords[idx + 1]) >= 2
    IN  CHOOSE out \in
            {IF st.use_lighting THEN LitColor(color, phong_lighting(final), st)
                                ELSE color :
                color \in (IF sampled
                           THEN {Modulated(st.base_color, tex_color) :
                                    tex_color \in {sample_bilinear(
                                        st.texture[1], model.tex_coords[idx + 1][1],
                                        model.tex_coords[idx + 1][2], "repeat").ret}}
                           ELSE {st.base_color}),
                final \in (IF st.use_lighting THEN {st.final[idx + 1]} ELSE {<<>>})} :
            TRUE

\* Renderer.compute_vertex_colors: the colours of the three vertices.
compute_vertex_colors(idx0, idx1, idx2, model, st) ==
    <<VertexColor(idx0, model, st), VertexColor(idx1, model, st),
      VertexColor(idx2, model, st)>>

\* RenderTriangle without the continue after the outline: the triangle is
\* filled as well.
RenderTriangle_fallthrough(rs, triangle, model, w, h, st) ==
    LET n == Len(model.vertices)
    IN  IF Len(triangle) < 3 THEN rs
        ELSE LET idx0 == triangle[1]
                 idx1 == triangle[2]
                 idx2 == triangle[3]
        IN  IF ~(0 <= idx0 /\ idx0 < n /\ 0 <= idx1 /\ idx1 < n /\ 0 <= idx2 /\ idx2 < n)
            THEN rs
            ELSE LET proj0 == project_point(model.vertices[idx0 + 1], w, h)
                     proj1 == project_point(model.vertices[idx1 + 1], w, h)
                     proj2 == project_point(model.vertices[idx2 + 1], w, h)
            IN  IF ~proj0.ok \/ ~proj1.ok \/ ~proj2.ok THEN rs
                ELSE LET c == compute_vertex_colors(idx0, idx1, idx2, model, st)
                         r == rasterize_triangle(
                                  [v0 |-> proj0.v, v1 |-> proj1.v, v2 |-> proj2.v,
                                   color0 |-> c[1], color1 |-> c[2], color2 |-> c[3],
                                   z0 |-> proj0.depth, z1 |-> proj1.depth,
                                   z2 |-> proj2.depth],
                                  w, h, TRUE, rs.zbuffer,
                                  IF st.draw_wireframe
                                  THEN rasterize_triangle_wireframe(
                                           proj0.v, proj1.v, proj2.v,
                                           <<255, 255, 255>>, w, h, rs.image).image
                                  ELSE rs.image)
                     IN  [rs EXCEPT !.image = r.image,
                                    !.zbuffer = r.zbuffer,
                                    !.written = rs.written \cup r.written,
                                    !.shade_calls = rs.shade_calls + 1,
                                    !.fill_calls = rs.fill_calls + 1]

\* The body of the loop over triangles, for one triangle.  rs is
\* [image, zbuffer, written, wire_calls, shade_calls, fill_calls].
RenderTriangle(rs, triangle, model, w, h, st) ==
    LET n == Len(model.vertices)
        Filled(rs0, r) ==
            [rs0 EXCEPT !.image = r.image,
                        !.zbuffer = r.zbuffer,
                        !.written = rs0.written \cup r.written,
                        !.shade_calls = rs0.shade_calls + 1,
                        !.fill_calls = rs0.fill_calls + 1]
        Pass(rs0) ==
            IF Len(triangle) < 3 THEN rs0
            ELSE LET idx0 == triangle[1]
                     idx1 == triangle[2]
                     idx2 == triangle[3]
            IN  IF ~(0 <= idx0 /\ idx0 < n /\ 0 <= idx1 /\ idx1 < n
                        /\ 0 <= idx2 /\ idx2 < n)
                THEN rs0
                ELSE LET proj0 == project_point(model.vertices[idx0 + 1], w, h)
                         proj1 == project_point(model.vertices[idx1 + 1], w, h)
                         proj2 == project_point(model.vertices[idx2 + 1], w, h)
                IN  IF ~proj0.ok \/ ~proj1.ok \/ ~proj2.ok THEN rs0
                    ELSE IF st.draw_wireframe
                    THEN LET r == rasterize_triangle_wireframe(
                                      proj0.v, proj1.v, proj2.v, <<255, 255, 255>>,
                                      w, h, rs0.image)
                         IN  [rs0 EXCEPT !.image = r.image,
                                         !.written = rs0.written \cup r.written,
                                         !.wire_calls = rs0.wire_calls + 1]
                    ELSE CHOOSE out \in
                             {Filled(rs0, r) :
                                  r \in {rasterize_triangle(t, w, h, TRUE,
                                                            rs0.zbuffer, rs0.image) :
                                     t \in {[v0 |-> proj0.v, v1 |-> proj1.v,
                                             v2 |-> proj2.v,
                                             color0 |-> c[1], color1 |-> c[2],
                                             color2 |-> c[3],
                                             z0 |-> proj0.depth, z1 |-> proj1.depth,
                                             z2 |-> proj2.depth] :
                                        c \in {compute_vertex_colors(
                                                   idx0, idx1, idx2, model, st)}}}} :
                             TRUE
    IN  CHOOSE out \in {Pass(rs0) : rs0 \in {rs}} : TRUE

RECURSIVE RenderLoop(_, _, _, _, _, _)
RenderLoop(rs, triangles, model, w, h, st) ==
    IF triangles = <<>> THEN rs
    ELSE RenderLoop(RenderTriangle(rs, Head(triangles), model, w, h, st),
                    Tail(triangles), model, w, h, st)

\* Renderer.render_model(model, camera) with triangles=None, as RenderWidget
\* calls it.  model is [vertices, faces]: vertices[i + 1] is
\* view_proj * transformed_vertices[i] in halves.  The result adds raised,
\* true when the call ends in an IndexError.
render_model(model, w, h, st, zb, img) ==
    LET rs0 == [image |-> img, zbuffer |-> zb, written |-> {}, wire_calls |-> 0,
                shade_calls |-> 0, fill_calls |-> 0, raised |-> FALSE]
    IN  IF model.vertices = <<>> \/ model.faces = <<>> THEN rs0
        ELSE IF NormalsRaise(model) THEN [rs0 EXCEPT !.raised = TRUE]
        ELSE RenderLoop(rs0, triangulate_model(model.faces), model, w, h, st)

\* Renderer.clear(color): the image after the call.
ClearImage(img, w, h, color) ==
    [y \in 1..Len(img) |-> [x \in 1..Len(img[y]) |->
        IF y <= h /\ x <= w THEN color ELSE img[y][x]]]


-----------------------------------------------------------------------------
(* rendering/renderer.py: render_model from world space, outline mode      *)

\* Renderer.project_point(point, view_proj_matrix) on a Vector3 and a
\* matrix: [ok, v, depth].  v holds int(screen_x) and int(screen_y) in
\* quarter pixels, all that the outline rasterizer reads of them.
project_point_matrix(point, view_proj_matrix, w, h) ==
    LET transformed == Matrix4x4_mul_Vector3(view_proj_matrix, point)
        screen_x == QMul(QAdd(transformed[1], Q(1)), Rat(w, 2))
        screen_y == QMul(QSub(Q(1), transformed[2]), Rat(h, 2))
    IN  IF QLess(Q(1), QAbs(transformed[3]))
        THEN [ok |-> FALSE, v |-> <<0, 0>>, depth |-> Q(0)]
        ELSE [ok |-> TRUE, v |-> <<4 * QInt(screen_x), 4 * QInt(screen_y)>>,
              depth |-> transformed[3]]

\* The body of the loop of render_model for one triangle while
\* draw_wireframe is set: rs is [image, written, wire_calls, raised].
WireframeTriangle(rs, triangle, vertices, view_proj, w, h) ==
    LET n == Len(vertices)
        Outline(rs0, proj) ==
            IF \E k \in 1..3 : ~proj[k].ok THEN rs0
            ELSE LET r == rasterize_triangle_wireframe(
                              proj[1].v, proj[2].v, proj[3].v,
                              <<255, 255, 255>>, w, h, rs0.image)
                 IN  [image |-> r.image, written |-> rs0.written \cup r.written,
                      wire_calls |-> rs0.wire_calls + 1, raised |-> rs0.raised]
    IN  IF Len(triangle) < 3 THEN rs
        ELSE IF ~(\A k \in 1..3 : 0 <= triangle[k] /\ triangle[k] < n) THEN rs
        ELSE CHOOSE out \in
                 {Outline(rs0, proj) :
                      rs0 \in {rs},
                      proj \in {[k \in 1..3 |->
                                   project_point_matrix(vertices[triangle[k] + 1],
                                                        view_proj, w, h)]}} : TRUE

RECURSIVE WireframeLoop(_, _, _, _, _, _)
WireframeLoop(rs, triangles, vertices, view_proj, w, h) ==
    IF triangles = <<>> THEN rs
    ELSE WireframeLoop(WireframeTriangle(rs, Head(triangles), vertices, view_proj, w, h),
                       Tail(triangles), vertices, view_proj, w, h)

\* Renderer.render_model(model, camera) while draw_wireframe is set, on a
\* model [vertices, faces] of world-space Vector3 with the identity
\* transform.  raised is true when the call ends in an exception.
render_model_wireframe(model, cam, w, h, img) ==
    LET rs0 == [image |-> img, written |-> {}, wire_calls |-> 0, raised |-> FALSE]
    IN  IF model.vertices = <<>> \/ model.faces = <<>> THEN rs0
        ELSE IF NormalsRaise(model) THEN [rs0 EXCEPT !.raised = TRUE]
        ELSE CHOOSE out \in
                 {IF ~view_proj.ok THEN [rs0 EXCEPT !.raised = TRUE]
                  ELSE WireframeLoop(rs0, triangulate_model(model.faces),
                                     model.vertices, view_proj.data, w, h) :
                      view_proj \in {get_view_projection_matrix(cam)}} : TRUE

-----------------------------------------------------------------------------
(* interface/models/model.py: Model                                        *)
(*                                                                         *)
(* A Model is [vertices, faces, normals, tex_coords, original_vertices];   *)
(* a vertex, a normal and a texture coordinate are objects, told apart by  *)
(* a name, and a face is a sequence of indices into vertices.              *)

\* Model(vertices, faces, normals, tex_coords)
Model(vertices, faces, normals, tex_coords) ==
    [vertices |-> vertices, faces |-> faces, normals |-> normals,
     tex_coords |-> tex_coords, original_vertices |-> vertices]

\* The elements of a list whose index is not in a set of indices.
RECURSIVE Without(_, _, _)
Without(list, indices, i) ==
    IF i >= Len(list) THEN <<>>
    ELSE (IF i \in indices THEN <<>> ELSE <<list[i + 1]>>)
         \o Without(list, indices, i + 1)

\* new_index_map left as it is: every index maps to itself.
new_index_map_same(n, valid_indices) ==
    [old_index \in (0..(n - 1)) \ valid_indices |-> old_index]

\* new_index_map: an index that stays maps to the number of indices below
\* it that stay.
new_index_map(n, valid_indices) ==
    [old_index \in (0..(n - 1)) \ valid_indices |->
        Cardinality({i \in 0..(old_index - 1) : i \notin valid_indices})]

\* The loop over one face: [face_valid, new_face].  The loop ends at the
\* first index that was deleted or has no entry in the map.
RECURSIVE NewFace(_, _, _, _)
NewFace(face, valid_indices, map, k) ==
    IF k > Len(face) THEN [face_valid |-> TRUE, new_face |-> <<>>]
    ELSE IF face[k] \in valid_indices \/ face[k] \notin DOMAIN map
    THEN [face_valid |-> FALSE, new_face |-> <<>>]
    ELSE CHOOSE out \in
             {[face_valid |-> rest.face_valid,
               new_face |-> <<map[face[k]]>> \o rest.new_face] :
                 rest \in {NewFace(face, valid_indices, map, k + 1)}} : TRUE

RECURSIVE NewFaces(_, _, _)
NewFaces(faces, valid_indices, map) ==
    IF faces = <<>> THEN <<>>
    ELSE CHOOSE out \in
             {(IF f.face_valid /\ Len(f.new_face) >= 3 THEN <<f.new_face>> ELSE <<>>)
              \o NewFaces(Tail(faces), valid_indices, map) :
                 f \in {NewFace(Head(faces), valid_indices, map, 1)}} : TRUE

\* Model.delete_vertices(vertex_indices): [ret, self].
delete_vertices(self, vertex_indices) ==
    LET n == Len(self.vertices)
        valid_indices == {i \in vertex_indices : 0 <= i /\ i < n}
    IN  IF vertex_indices = {} \/ valid_indices = {} THEN [ret |-> 0, self |-> self]
        ELSE LET original == Without(self.original_vertices, valid_indices, 0)
                 kept(list) == IF list # <<>>
                                  /\ Len(list) = Len(original) + Cardinality(valid_indices)
                               THEN Without(list, valid_indices, 0)
                               ELSE list
             IN  [ret |-> Cardinality(valid_indices),
                  self |-> [vertices |-> Without(self.vertices, valid_indices, 0),
                            original_vertices |-> original,
                            normals |-> kept(self.normals),
                            tex_coords |-> kept(self.tex_coords),
                            faces |-> NewFaces(self.faces, valid_indices,
                                               new_index_map(n, valid_indices))]]

\* Model.delete_faces(face_indices): [ret, self].
delete_faces(self, face_indices) ==
    LET valid_indices == {i \in face_indices : 0 <= i /\ i < Len(self.faces)}
    IN  IF face_indices = {} \/ valid_indices = {} THEN [ret |-> 0, self |-> self]
        ELSE [ret |-> Cardinality(valid_indices),
              self |-> [self EXCEPT !.faces = Without(self.faces, valid_indices, 0)]]

-----------------------------------------------------------------------------
(* interface/models/scene.py: Scene                                        *)
(*                                                                         *)
(* A Scene is [models, selected_model_index, cameras,                      *)
(* selected_camera_index]; models and cameras are lists of objects, told   *)
(* apart by a name.                                                        *)

\* Scene(): no model, the default camera selected.
Scene ==
    [models |-> <<>>, selected_model_index |-> -1,
     cameras |-> <<"Default Camera">>, selected_camera_index |-> 0]

\* list.pop(index), 0 <= index < len(list)
Pop(list, index) == SubSeq(list, 1, index) \o SubSeq(list, index + 2, Len(list))

\* Add that leaves the selected index alone.
Add_unselected(list, selected, object) ==
    [ret |-> Len(list), list |-> Append(list, object), selected |-> selected]

\* add_model and add_camera on their list and selected index:
\* [ret, list, selected].
Add(list, selected, object) ==
    [ret |-> Len(list), list |-> Append(list, object),
     selected |-> IF selected = -1 THEN Len(list) ELSE selected]

\* Remove that never moves the selected index.
Remove_keep(list, selected, index) ==
    IF 0 <= index /\ index < Len(list)
    THEN [ret |-> TRUE, list |-> Pop(list, index),
          selected |-> IF selected = index
                       THEN (IF Len(list) > 1 THEN Min2(index, Len(list) - 2) ELSE -1)
                       ELSE selected]
    ELSE [ret |-> FALSE, list |-> list, selected |-> selected]

\* remove_model and remove_camera: [ret, list, selected].
Remove(list, selected, index) ==
    IF 0 <= index /\ index < Len(list)
    THEN [ret |-> TRUE, list |-> Pop(list, index),
          selected |-> IF selected = index
                       THEN (IF Len(list) > 1 THEN Min2(index, Len(list) - 2) ELSE -1)
                       ELSE IF selected > index THEN selected - 1
                       ELSE selected]
    ELSE [ret |-> FALSE, list |-> list, selected |-> selected]

\* select_model and select_camera: [ret, selected].
Select(list, selected, index) ==
    IF 0 <= index /\ index < Len(list)
    THEN [ret |-> TRUE, selected |-> index]
    ELSE [ret |-> FALSE, selected |-> selected]

\* get_selected_model and get_selected_camera: the object, "None" for None.
GetSelected(list, selected) ==
    IF 0 <= selected /\ selected < Len(list) THEN list[selected + 1] ELSE "None"

-----------------------------------------------------------------------------
(* Inputs of the camera and matrix operations.                             *)

\* The 8 corners of the cube from lo/2 to hi/2 on each axis, and its 6
\* quads as 0-based indices.
CubeVertices(lo, hi) ==
    << <<Rat(lo, 2), Rat(lo, 2), Rat(lo, 2)>>, <<Rat(hi, 2), Rat(lo, 2), Rat(lo, 2)>>,
       <<Rat(hi, 2), Rat(hi, 2), Rat(lo, 2)>>, <<Rat(lo, 2), Rat(hi, 2), Rat(lo, 2)>>,
       <<Rat(lo, 2), Rat(lo, 2), Rat(hi, 2)>>, <<Rat(hi, 2), Rat(lo, 2), Rat(hi, 2)>>,
       <<Rat(hi, 2), Rat(hi, 2), Rat(hi, 2)>>, <<Rat(lo, 2), Rat(hi, 2), Rat(hi, 2)>> >>

CubeFaces ==
    << <<0, 3, 2, 1>>, <<4, 5, 6, 7>>, <<0, 1, 5, 4>>,
       <<2, 3, 7, 6>>, <<0, 4, 7, 3>>, <<1, 2, 6, 5>> >>

\* The unit cube centred at the origin.
UnitCube == [vertices |-> CubeVertices(-1, 1), faces |-> CubeFaces]

\* World-space meshes: the unit cube centred at the origin, the unit cube
\* with a corner at the origin, a mesh without faces.
Meshes ==
    { UnitCube,
      [vertices |-> CubeVertices(0, 2), faces |-> CubeFaces],
      [vertices |-> CubeVertices(-1, 1), faces |-> <<>>] }

\* Camera positions whose distance to the origin is rational.
CameraPositions == {Vector3(0, 0, 5), Vector3(3, 0, 4)}

\* Displacements of Camera.move.
Deltas == {Vector3(0, 0, 1), <<Rat(-1, 2), Q(0), Rat(1, 2)>>}

\* Clipping planes <<near_plane, far_plane>>: the default ones, then
\* near_plane = 0, far_plane < near_plane and far_plane = near_plane.
ClipPlanes == {<< <<1, 10>>, Q(1000)>>, <<Q(0), Q(1000)>>,
               <<Q(1), <<1, 10>> >>, << <<1, 10>>, <<1, 10>> >>}

\* Components of the vectors and the scalars of the model.
Components == {Q(-1), <<1, 2>>, Q(2)}

Scalars == {Q(2), <<-1, 2>>, Q(0)}

Dimension(class) ==
    CASE class = "Vector2" -> 2 [] class = "Vector3" -> 3 [] class = "Vector4" -> 4

VectorClasses == {"Vector2", "Vector3", "Vector4"}

\* The vectors of a class over Components; of Vector4 those with w = 2.
VectorsOf(class) ==
    {Vector(class, value) : value \in
        {t \in [1..Dimension(class) -> Components] : Len(t) = 4 => t[4] = Q(2)}}

\* Arguments of the matrix constructors: no data, 3x3 and 4x4 data, too few
\* and too many rows, a row too short and a row too long, no rows.
MatrixData ==
    { None,
      [i \in 1..3 |-> [j \in 1..3 |-> Q(i + j)]],
      [i \in 1..4 |-> [j \in 1..4 |-> Q(i * j)]],
      [i \in 1..2 |-> [j \in 1..3 |-> Q(i)]],
      [i \in 1..5 |-> [j \in 1..4 |-> Q(j)]],
      <<<<Q(1), Q(2), Q(3)>>, <<Q(4), Q(5)>>, <<Q(6), Q(7), Q(8)>>>>,
      <<<<Q(1), Q(2), Q(3), Q(4)>>, <<Q(1), Q(2), Q(3), Q(4)>>,
        <<Q(1), Q(2), Q(3), Q(4), Q(5)>>, <<Q(1), Q(2), Q(3), Q(4)>>>>,
      <<>> }

\* A loaded texture of the given size, each pixel with a colour of its own.
LoadedTexture(w, h) ==
    [width |-> w, height |-> h,
     data |-> [y \in 1..h |-> [x \in 1..w |->
                 <<(7 * (x - 1) + 13 * (y - 1)) % 256,
                   (31 * (x - 1) + (y - 1)) % 256,
                   ((x - 1) * (y - 1)) % 256>>]]]

\* Sizes of the loaded textures.
TextureSizes == {<<2, 2>>, <<3, 2>>, <<MaxTexW, 2>>, <<MaxTexW, MaxTexH>>}

Textures == {Texture} \cup {LoadedTexture(wh[1], wh[2]) : wh \in TextureSizes}

\* Texture coordinates given as literals: -1.5, -0.25, 0, 0.25, 0.5, 1, 2
Coordinates ==
    {Float(-1, -1, 1), Float(0, -1, 2), Float(0, 0, 0), Float(0, 1, 2),
     Float(0, 1, 1), Float(1, 0, 0), Float(2, 0, 0)}

\* Texture coordinates computed as i / (n - 1), the coordinate of column or
\* row i of n
GridCoordinates(n) == IF n < 2 THEN {} ELSE {FDivInt(i, n - 1) : i \in 0..(n - 1)}

WrapModes == {"repeat", "clamp", "mirror"}

\* The vertices, normals and texture coordinates of a loaded mesh: objects
\* <<"v", i>>, <<"n", i>>, <<"t", i>>.
Objects(kind, n) == [i \in 1..n |-> <<kind, i - 1>>]

\* Face lists of a mesh of MaxVertices vertices: valid ones, and ones with
\* a face of two indices, an index beyond the vertices, a negative index.
EditFaceLists ==
    { << <<0, 1, 2>> >>,
      << <<0, 1, 2>>, <<MaxVertices - 3, MaxVertices - 2, MaxVertices - 1>> >>,
      << <<0, 1, 2, MaxVertices - 1>>, <<0, 2, MaxVertices - 1>>, <<0, 1, 2>> >>,
      << <<1, 2, MaxVertices - 1>>, <<1, 2, MaxVertices - 1>>, <<0, 1, 2>> >>,
      <<>>,
      << <<0, 1>>, <<0, 1, 2>> >>,
      << <<0, 1, MaxVertices>>, <<0, 1, 2>> >>,
      << <<0, -1, 2>>, <<0, 1, 2>> >> }

\* Meshes as the loader constructs them: with and without normals and
\* texture coordinates, and with texture coordinates for one vertex less.
EditMeshes ==
    {Model(Objects("v", MaxVertices), faces, normals, tex_coords) :
        faces \in EditFaceLists,
        normals \in {<<>>, Objects("n", MaxVertices)},
        tex_coords \in {<<>>, Objects("t", MaxVertices), Objects("t", MaxVertices - 1)}}

\* Arguments of delete_vertices and delete_faces: up to two indices, from
\* one below zero to one beyond the vertices.
IndexSets ==
    {S \in SUBSET (-1..MaxVertices) : Cardinality(S) <= 2}

\* Models and cameras added to a scene.
SceneObjects == {"A", "B"}


\* Screen vertices of outlines, in quarter pixels: left of, above, inside,
\* right of, below and far from the image, several truncating to the same
\* pixel.
WireXs == {-6, -1, 3, 4 * MaxW + 1, 30}

WireYs == {-6, 0, 5, 4 * MaxH + 1}

WirePoints == WireXs \X WireYs


\* Widget sizes handed to set_aspect_ratio: widths from 0, heights from -1.
WidgetWidths == 0..(MaxW + 2)

WidgetHeights == -1..(MaxH + 2)


\* Settings of a renderer: the defaults, wireframe, texture with lighting,
\* and a base colour with channels below 0 and above 255, alone and with
\* texture and lighting.
ShadingModes ==
    { RenderSettings,
      [RenderSettings EXCEPT !.draw_wireframe = TRUE],
      [RenderSettings EXCEPT !.use_texture = TRUE, !.use_lighting = TRUE],
      [RenderSettings EXCEPT !.base_color = <<300, -20, 100>>],
      [RenderSettings EXCEPT !.base_color = <<300, -20, 100>>,
                             !.use_texture = TRUE, !.use_lighting = TRUE] }

\* Meshes after the view-projection transform: a triangle with texture
\* coordinates and a quad without.
ShadedMeshes ==
    { [vertices |-> NdcVertices, faces |-> << <<0, 1, 2>> >>,
       tex_coords |-> << <<Float(0, 0, 0), Float(0, 0, 0)>>,
                         <<Float(0, 1, 1), Float(0, 1, 1)>>,
                         <<Float(0, 1, 2), Float(0, 1, 1)>> >>],
      [vertices |-> NdcVertices, faces |-> << <<0, 1, 3, 2>> >>,
       tex_coords |-> <<>>] }

\* The Phong sums of the vertices of a mesh: a lit surface with ambient
\* only at every other vertex, and sums above 1 and below 0.
LightSums ==
    { [k \in 1..Len(NdcVertices) |->
          IF k % 2 = 1 THEN <<Rat(9, 10), Rat(1, 2), Rat(1, 10)>>
                       ELSE <<Rat(1, 10), Rat(1, 10), Rat(1, 10)>>],
      [k \in 1..Len(NdcVertices) |->
          IF k % 2 = 1 THEN <<Rat(19, 10), Q(1), Rat(1, 2)>>
                       ELSE <<Rat(-1, 10), Q(0), Rat(1, 10)>>] }

\* Vertices of meshes in world space: five in the plane z = 0, the last
\* one used by no face below, and four in the plane 3x + 4z = 0, so that
\* every face normal and every sum of them has a rational length.
FlatVertices ==
    <<Vector3(0, 0, 0), Vector3(1, 0, 0), Vector3(0, 1, 0), Vector3(1, 1, 0),
      Vector3(3, 3, 0)>>

TiltedVertices ==
    <<Vector3(0, 0, 0), Vector3(0, 1, 0), Vector3(4, 0, -3), Vector3(4, 1, -3)>>

\* Faces over the first four vertices: a triangle, the same one turned
\* over, a quad, a second triangle, one with a repeated vertex, an edge.
NormalFaces ==
    {<<0, 1, 2>>, <<0, 2, 1>>, <<0, 1, 3, 2>>, <<2, 1, 3>>, <<0, 1, 1>>, <<0, 1>>}

\* Face lists with an index beyond the vertices or below zero.
StrayFaceLists ==
    { << <<0, 1, 7>> >>, << <<0, 1, 2>>, <<0, 1, 7>> >>, << <<0, 1, -1>> >>,
      << <<0, -9, 2>> >> }

\* Colours given to Light as tuples: on the scale 0-1 and on the scale
\* 0-255, with a first channel of 0, of 1 and above 1.
LightColors ==
    { <<Q(1), Q(1), Q(1)>>, <<Rat(1, 2), Rat(1, 4), Q(0)>>, <<Q(0), Q(0), Q(0)>>,
      <<Q(255), Q(255), Q(255)>>, <<Q(255), Q(0), Q(0)>>, <<Q(0), Q(255), Q(0)>>,
      <<Q(1), Q(200), Q(128)>>, <<Q(128), Q(64), Q(2)>> }

\* Texture coordinates of a mesh: none, one for each of three vertices,
\* one for the first two vertices only, and a third of one component.
TexCoordLists ==
    { <<>>,
      << <<Float(0, 0, 0), Float(0, 0, 0)>>, <<Float(0, 1, 1), Float(0, 1, 1)>>,
         <<Float(0, 1, 2), Float(0, 1, 1)>> >>,
      << <<Float(0, 0, 0), Float(0, 0, 0)>>, <<Float(0, 1, 1), Float(0, 1, 1)>> >>,
      << <<Float(0, 0, 0), Float(0, 0, 0)>>, <<Float(0, 1, 1), Float(0, 1, 1)>>,
         <<Float(0, 1, 2)>> >> }

\* Renderer.texture: None, a Texture with nothing loaded, a loaded one.
BoundTextures == {<<>>, <<Texture>>, <<LoadedTexture(2, 2)>>}

\* The Phong sum of a vertex: ambient only, a lit surface, a sum above 1
\* and a sum below 0.
FinalColors ==
    { <<Rat(1, 10), Rat(1, 10), Rat(1, 10)>>, <<Rat(9, 10), Rat(1, 2), Rat(1, 10)>>,
      <<Rat(19, 10), Q(1), Rat(1, 2)>>, <<Rat(-1, 10), Q(0), Rat(1, 10)>> }

BaseColors == {<<200, 200, 200>>, <<255, 128, 0>>}

\* The settings, the texture and the Phong sums of a renderer.
Shading(st, texture, final) ==
    [draw_wireframe |-> st.draw_wireframe, use_texture |-> st.use_texture,
     use_lighting |-> st.use_lighting, base_color |-> st.base_color,
     texture |-> texture, final |-> final]

-----------------------------------------------------------------------------
(* State and actions.                                                      *)

NoCalls == [wire |-> 0, shade |-> 0, fill |-> 0]

Last(op, arg, ret, written, calls) ==
    [op |-> op, arg |-> arg, ret |-> ret, written |-> written, calls |-> calls]

\* Renderer.__init__(width, height)
Renderer(w, h) ==
    /\ width = w
    /\ height = h
    /\ zbuffer = ZBuffer(w, h)
    /\ image = Grid(w, h, <<0, 0, 0>>)
    /\ settings = RenderSettings
    /\ draws = 0
    /\ last = Last("init", <<w, h>>, 0, {}, NoCalls)
    /\ prev = Last("none", <<>>, 0, {}, NoCalls)
    /\ camera = Camera(<<>>, <<>>, <<>>)
    /\ mesh = Model(<<>>, <<>>, <<>>, <<>>)
    /\ scene = Scene

\* A renderer constructed at the smallest or the largest width and height.
Init == \E w \in {1, MaxW}, h \in {1, MaxH} : Renderer(w, h)

\* Renderer.set_size(width, height)
SetSize(w, h) ==
    /\ width' = w
    /\ height' = h
    /\ zbuffer' = ZBuffer(w, h)
    /\ image' = Grid(w, h, <<0, 0, 0>>)
    /\ draws' = 0
    /\ last' = Last("set_size", <<w, h>>, 0, {}, NoCalls)
    /\ UNCHANGED <<settings, prev, camera, mesh, scene>>

\* Renderer.clear(color).  last.ret records how many Z-buffer cells held a
\* finite depth when it was called.
Clear(color) ==
    /\ image' = ClearImage(image, width, height, color)
    /\ zbuffer' = ZBufferClear(zbuffer)
    /\ draws' = 0
    /\ last' = Last("clear", color,
                     Cardinality({q \in (1..zbuffer.width) \X (1..zbuffer.height) :
                                     zbuffer.buffer[q[2]][q[1]] # Inf}),
                     {}, NoCalls)
    /\ UNCHANGED <<width, height, settings, prev, camera, mesh, scene>>

\* MainWindow.on_render_mode_changed: the wireframe check box sets the flag.
SetRenderMode(wire) ==
    /\ settings' = [settings EXCEPT !.draw_wireframe = wire]
    /\ last' = Last("set_mode", wire, 0, {}, NoCalls)
    /\ UNCHANGED <<width, height, image, zbuffer, draws, prev, camera,
                   mesh, scene>>

\* Renderer.render_model(model, camera).  last.arg records whether the call
\* raised, last.ret the model.
RenderModel(model) ==
    /\ draws < MaxDraws
    /\ \E r \in {render_model(model, width, height, settings, zbuffer, image)} :
           /\ image' = r.image
           /\ zbuffer' = r.zbuffer
           /\ last' = Last("render_model", r.raised, model, r.written,
                           [wire |-> r.wire_calls, shade |-> r.shade_calls,
                            fill |-> r.fill_calls])
    /\ draws' = draws + 1
    /\ UNCHANGED <<width, height, settings, prev, camera, mesh, scene>>

Next ==
    \/ \E w \in 0..MaxW, h \in 0..MaxH : SetSize(w, h)
    \/ \E color \in ClearColors : Clear(color)
    \/ \E wire \in BOOLEAN : SetRenderMode(wire)
    \/ \E model \in Models : RenderModel(model)

Spec == Init /\ [][Next]_vars

\* rasterize_triangle called on the renderer's buffers.
DrawTriangle(t, hasZ) ==
    /\ \E r \in {rasterize_triangle(t, width, height, hasZ, zbuffer, image)} :
           /\ image' = r.image
           /\ zbuffer' = r.zbuffer
           /\ last' = Last("rasterize_triangle", [t |-> t, hasZ |-> hasZ],
                           r.ret, r.written, NoCalls)
    /\ draws' = draws + 1
    /\ prev' = last
    /\ UNCHANGED <<width, height, settings, camera, mesh, scene>>

\* The first triangle drawn into the buffers of a fresh renderer.
DrawFirst ==
    /\ draws = 0
    /\ \E ijk \in PointTriples, m \in Materials :
          DrawTriangle(Triangle(Points[ijk[1]], Points[ijk[2]], Points[ijk[3]], m), m.hasZ)

\* The second triangle, drawn over a first one that wrote some pixel (after
\* any other the buffers are those of the fresh renderer again).
DrawSecond ==
    /\ draws = 1
    /\ last.ret > 0
    /\ \E ijk \in PointTriples, m \in Materials :
          DrawTriangle(Triangle(Points[ijk[1]], Points[ijk[2]], Points[ijk[3]], m), m.hasZ)

NextRaster == DrawFirst \/ DrawSecond

SpecRaster == Init /\ [][NextRaster]_vars

\* ZBuffer.test_and_set(x, y, z) called on the renderer's Z-buffer.
ZTestAndSet(x, y, z) ==
    /\ draws < MaxDraws
    /\ \E r \in {test_and_set(zbuffer, x, y, z)} :
           /\ zbuffer' = r.zbuffer
           /\ last' = Last("test_and_set", <<x, y, z>>, r.ret, {}, NoCalls)
    /\ draws' = draws + 1
    /\ UNCHANGED <<width, height, image, settings, prev, camera, mesh, scene>>

\* ZBuffer.clear()
ZClear ==
    /\ zbuffer' = ZBufferClear(zbuffer)
    /\ draws' = 0
    /\ last' = Last("zbuffer_clear", <<>>, 0, {}, NoCalls)
    /\ UNCHANGED <<width, height, image, settings, prev, camera, mesh, scene>>

NextZBuffer ==
    \/ \E x \in -1..MaxW, y \in -1..MaxH, z \in Depths : ZTestAndSet(x, y, z)
    \/ ZClear

SpecZBuffer == Init /\ [][NextZBuffer]_vars

\* triangulate_face(face_vertices)
TriangulateFace(f) ==
    /\ last.op = "init"
    /\ last' = Last("triangulate_face", f, triangulate_face(f), {}, NoCalls)
    /\ UNCHANGED <<width, height, image, zbuffer, settings, draws, prev, camera,
                   mesh, scene>>

NextTri == \E f \in SeqsUpTo(0..MaxIndex, MaxFaceLen) : TriangulateFace(f)

SpecTri == Init /\ [][NextTri]_vars

\* MainWindow.on_add_camera: a new Camera becomes the current one.  prev
\* keeps the camera as constructed.
NewCamera(position) ==
    /\ camera' = Camera(position, Vector3(0, 0, 0), Vector3(0, 1, 0))
    /\ last' = Last("Camera", position, 0, {}, NoCalls)
    /\ prev' = Last("Camera", position, camera', {}, NoCalls)
    /\ UNCHANGED <<width, height, image, zbuffer, settings, draws,
                   mesh, scene>>

\* Camera.move(delta), while the camera stays within MaxCoord of the origin.
Move(delta) ==
    /\ \A k \in 1..3 :
           Abs(QInt(QAdd(camera.position[k], delta[k]))) <= MaxCoord
    /\ camera' = move(camera, delta)
    /\ last' = Last("move", delta, 0, {}, NoCalls)
    /\ UNCHANGED <<width, height, image, zbuffer, settings, draws, prev,
                   mesh, scene>>

\* Assignment to the attributes near_plane and far_plane.
SetClipPlanes(near, far) ==
    /\ camera' = [camera EXCEPT !.near_plane = near, !.far_plane = far]
    /\ last' = Last("set_clip_planes", <<near, far>>, 0, {}, NoCalls)
    /\ UNCHANGED <<width, height, image, zbuffer, settings, draws, prev,
                   mesh, scene>>

\* Camera.get_projection_matrix()
GetProjectionMatrix ==
    /\ last' = Last("get_projection_matrix", <<>>, get_projection_matrix(camera),
                    {}, NoCalls)
    /\ UNCHANGED <<width, height, image, zbuffer, settings, draws, prev, camera,
                   mesh, scene>>

\* camera.get_view_matrix() * point
ViewTransform(point) ==
    /\ last' = Last("view_transform", point,
                    Matrix4x4_mul_Vector3(get_view_matrix(camera).data, point),
                    {}, NoCalls)
    /\ UNCHANGED <<width, height, image, zbuffer, settings, draws, prev, camera,
                   mesh, scene>>

\* Renderer.render_model(model, camera) while draw_wireframe is set.
RenderWireframe(model) ==
    /\ settings.draw_wireframe
    /\ \E r \in {render_model_wireframe(model, camera, width, height, image)} :
           /\ image' = r.image
           /\ last' = Last("render_model", model, r.raised, r.written,
                           [wire |-> r.wire_calls, shade |-> 0, fill |-> 0])
    /\ UNCHANGED <<width, height, zbuffer, settings, draws, prev, camera,
                   mesh, scene>>

NextCamera ==
    \/ \E position \in CameraPositions : NewCamera(position)
    \/ \E delta \in Deltas : Move(delta)
    \/ \E planes \in ClipPlanes : SetClipPlanes(planes[1], planes[2])
    \/ GetProjectionMatrix
    \/ \E point \in {Vector3(0, 0, 0), camera.position} : ViewTransform(point)
    \/ SetRenderMode(TRUE)
    \/ \E model \in Meshes : RenderWireframe(model)

\* RenderWidget.__init__: a renderer and the default camera.
InitCamera == Renderer(MaxW, MaxH)

SpecCamera == InitCamera /\ [][NextCamera]_vars

\* a + b or a - b on two vectors of one class
VectorAddSub(op, a, b) ==
    /\ last.op = "init"
    /\ last' = Last(op, <<a, b>>, VectorOp(op, a, b), {}, NoCalls)
    /\ UNCHANGED <<width, height, image, zbuffer, settings, draws, prev, camera,
                   mesh, scene>>

\* a / s
VectorDiv(a, s) ==
    /\ last.op = "init"
    /\ last' = Last("truediv", <<a, s>>, VectorOp("truediv", a, s), {}, NoCalls)
    /\ UNCHANGED <<width, height, image, zbuffer, settings, draws, prev, camera,
                   mesh, scene>>

\* Matrix3x3(data, identity, zero) and Matrix4x4(data, identity, zero)
MatrixConstruct(N, data, identity, zero) ==
    /\ last.op = "init"
    /\ last' = Last("Matrix", [N |-> N, data |-> data, identity |-> identity,
                               zero |-> zero],
                    IF N = 3 THEN Matrix3x3(data, identity, zero)
                    ELSE Matrix4x4(data, identity, zero), {}, NoCalls)
    /\ UNCHANGED <<width, height, image, zbuffer, settings, draws, prev, camera,
                   mesh, scene>>

NextMath ==
    \/ \E class \in VectorClasses, op \in {"add", "sub"} :
           \E a \in VectorsOf(class), b \in VectorsOf(class) : VectorAddSub(op, a, b)
    \/ \E class \in VectorClasses : \E a \in VectorsOf(class), s \in Scalars :
           VectorDiv(a, s)
    \/ \E N \in {3, 4}, data \in MatrixData, identity \in BOOLEAN, zero \in BOOLEAN :
           MatrixConstruct(N, data, identity, zero)

SpecMath == Init /\ [][NextMath]_vars

\* Texture.sample(u, v, wrap_mode)
Sample(tex, u, v, wrap_mode) ==
    /\ last.op = "init"
    /\ last' = Last("sample", [tex |-> tex, u |-> u, v |-> v, wrap_mode |-> wrap_mode],
                    sample(tex, u, v, wrap_mode), {}, NoCalls)
    /\ UNCHANGED <<width, height, image, zbuffer, settings, draws, prev, camera,
                   mesh, scene>>

\* Texture.sample_bilinear(u, v, wrap_mode)
SampleBilinear(tex, u, v, wrap_mode) ==
    /\ last.op = "init"
    /\ last' = Last("sample_bilinear",
                    [tex |-> tex, u |-> u, v |-> v, wrap_mode |-> wrap_mode],
                    sample_bilinear(tex, u, v, wrap_mode), {}, NoCalls)
    /\ UNCHANGED <<width, height, image, zbuffer, settings, draws, prev, camera,
                   mesh, scene>>

NextTexture ==
    \/ \E tex \in Textures, wrap_mode \in WrapModes :
           \E u \in Coordinates, v \in Coordinates : Sample(tex, u, v, wrap_mode)
    \/ \E tex \in Textures, wrap_mode \in WrapModes :
           \E u \in Coordinates \cup GridCoordinates(tex.width),
              v \in Coordinates \cup GridCoordinates(tex.height) :
               SampleBilinear(tex, u, v, wrap_mode)

SpecTexture == InitCamera /\ [][NextTexture]_vars

\* Light(color=color)
NewLight(color) ==
    /\ last.op = "init"
    /\ last' = Last("Light", color, Light(color), {}, NoCalls)
    /\ UNCHANGED <<width, height, image, zbuffer, settings, draws, prev, camera,
                   mesh, scene>>

\* Renderer.compute_vertex_colors on the triangle (0, 1, 2) of a mesh
ComputeVertexColors(model, st) ==
    /\ last.op = "init"
    /\ last' = Last("compute_vertex_colors", [model |-> model, st |-> st],
                    compute_vertex_colors(0, 1, 2, model, st), {}, NoCalls)
    /\ UNCHANGED <<width, height, image, zbuffer, settings, draws, prev, camera,
                   mesh, scene>>

NextLighting ==
    \/ \E color \in LightColors : NewLight(color)
    \/ \E tex_coords \in TexCoordLists, texture \in BoundTextures,
          f \in FinalColors, g \in FinalColors, base_color \in BaseColors,
          use_texture \in BOOLEAN, use_lighting \in BOOLEAN :
           ComputeVertexColors(
               [vertices |-> NdcVertices, faces |-> << <<0, 1, 2>> >>,
                tex_coords |-> tex_coords],
               Shading([RenderSettings EXCEPT !.use_texture = use_texture,
                                              !.use_lighting = use_lighting,
                                              !.base_color = base_color],
                       texture, <<f, g, f>>))

SpecLighting == InitCamera /\ [][NextLighting]_vars

\* compute_vertex_normals(vertices, faces)
ComputeVertexNormals(vertices, faces) ==
    /\ last.op = "init"
    /\ last' = Last("compute_vertex_normals", [vertices |-> vertices, faces |-> faces],
                    compute_vertex_normals(vertices, faces), {}, NoCalls)
    /\ UNCHANGED <<width, height, image, zbuffer, settings, draws, prev, camera,
                   mesh, scene>>

NextNormals ==
    \E vertices \in {<<>>, FlatVertices, TiltedVertices},
       faces \in SeqsUpTo(NormalFaces, MaxFaces) \cup StrayFaceLists :
        ComputeVertexNormals(vertices, faces)

SpecNormals == InitCamera /\ [][NextNormals]_vars

\* MainWindow.load_model: Model(vertices, faces, normals, tex_coords)
LoadModel(model) ==
    /\ mesh' = model
    /\ last' = Last("Model", <<>>, 0, {}, NoCalls)
    /\ UNCHANGED <<width, height, image, zbuffer, settings, draws, prev, camera, scene>>

\* Model.delete_vertices(vertex_indices)
DeleteVertices(vertex_indices) ==
    /\ \E r \in {delete_vertices(mesh, vertex_indices)} :
           /\ mesh' = r.self
           /\ last' = Last("delete_vertices", vertex_indices, r.ret, {}, NoCalls)
    /\ UNCHANGED <<width, height, image, zbuffer, settings, draws, prev, camera, scene>>

\* Model.delete_faces(face_indices)
DeleteFaces(face_indices) ==
    /\ \E r \in {delete_faces(mesh, face_indices)} :
           /\ mesh' = r.self
           /\ last' = Last("delete_faces", face_indices, r.ret, {}, NoCalls)
    /\ UNCHANGED <<width, height, image, zbuffer, settings, draws, prev, camera, scene>>

NextModel ==
    \/ \E model \in EditMeshes : LoadModel(model)
    \/ \E vertex_indices \in IndexSets : DeleteVertices(vertex_indices)
    \/ \E face_indices \in IndexSets : DeleteFaces(face_indices)

SpecModel == InitCamera /\ [][NextModel]_vars

\* Scene.add_model(model)
AddModel(model) ==
    /\ Len(scene.models) < MaxModels
    /\ \E r \in {Add(scene.models, scene.selected_model_index, model)} :
           /\ scene' = [scene EXCEPT !.models = r.list,
                                     !.selected_model_index = r.selected]
           /\ last' = Last("add_model", model, r.ret, {}, NoCalls)
    /\ UNCHANGED <<width, height, image, zbuffer, settings, draws, prev, camera, mesh>>

\* Scene.remove_model(index)
RemoveModel(index) ==
    /\ \E r \in {Remove(scene.models, scene.selected_model_index, index)} :
           /\ scene' = [scene EXCEPT !.models = r.list,
                                     !.selected_model_index = r.selected]
           /\ last' = Last("remove_model", index, r.ret, {}, NoCalls)
    /\ UNCHANGED <<width, height, image, zbuffer, settings, draws, prev, camera, mesh>>

\* Scene.select_model(index)
SelectModel(index) ==
    /\ \E r \in {Select(scene.models, scene.selected_model_index, index)} :
           /\ scene' = [scene EXCEPT !.selected_model_index = r.selected]
           /\ last' = Last("select_model", index, r.ret, {}, NoCalls)
    /\ UNCHANGED <<width, height, image, zbuffer, settings, draws, prev, camera, mesh>>

\* Scene.clear()
SceneClear ==
    /\ scene' = [scene EXCEPT !.models = <<>>, !.selected_model_index = -1]
    /\ last' = Last("scene_clear", <<>>, 0, {}, NoCalls)
    /\ UNCHANGED <<width, height, image, zbuffer, settings, draws, prev, camera, mesh>>

\* Scene.add_camera(camera)
AddCamera(cam) ==
    /\ Len(scene.cameras) < MaxCameras
    /\ \E r \in {Add(scene.cameras, scene.selected_camera_index, cam)} :
           /\ scene' = [scene EXCEPT !.cameras = r.list,
                                     !.selected_camera_index = r.selected]
           /\ last' = Last("add_camera", cam, r.ret, {}, NoCalls)
    /\ UNCHANGED <<width, height, image, zbuffer, settings, draws, prev, camera, mesh>>

\* Scene.remove_camera(index)
RemoveCamera(index) ==
    /\ \E r \in {Remove(scene.cameras, scene.selected_camera_index, index)} :
           /\ scene' = [scene EXCEPT !.cameras = r.list,
                                     !.selected_camera_index = r.selected]
           /\ last' = Last("remove_camera", index, r.ret, {}, NoCalls)
    /\ UNCHANGED <<width, height, image, zbuffer, settings, draws, prev, camera, mesh>>

\* Scene.select_camera(index)
SelectCamera(index) ==
    /\ \E r \in {Select(scene.cameras, scene.selected_camera_index, index)} :
           /\ scene' = [scene EXCEPT !.selected_camera_index = r.selected]
           /\ last' = Last("select_camera", index, r.ret, {}, NoCalls)
    /\ UNCHANGED <<width, height, image, zbuffer, settings, draws, prev, camera, mesh>>

NextScene ==
    \/ \E model \in SceneObjects : AddModel(model)
    \/ \E index \in -1..MaxModels : RemoveModel(index)
    \/ \E index \in -1..MaxModels : SelectModel(index)
    \/ SceneClear
    \/ \E cam \in SceneObjects : AddCamera(cam)
    \/ \E index \in -1..MaxCameras : RemoveCamera(index)
    \/ \E index \in -1..MaxCameras : SelectCamera(index)

SpecScene == InitCamera /\ [][NextScene]_vars

\* rasterize_triangle_wireframe called on the image of a fresh renderer.
DrawWireframe(v0, v1, v2) ==
    /\ draws = 0
    /\ \E r \in {rasterize_triangle_wireframe(v0, v1, v2, <<255, 255, 255>>,
                                              width, height, image)} :
           /\ image' = r.image
           /\ last' = Last("rasterize_triangle_wireframe", <<v0, v1, v2>>,
                           [ret |-> r.ret, edges |-> r.edges,
                            running |-> r.running],
                           r.written, NoCalls)
    /\ draws' = draws + 1
    /\ prev' = last
    /\ UNCHANGED <<width, height, zbuffer, settings, camera, mesh, scene>>

NextWire == \E v0 \in WirePoints, v1 \in WirePoints, v2 \in WirePoints :
                DrawWireframe(v0, v1, v2)

SpecWire == Init /\ [][NextWire]_vars

\* Camera.set_aspect_ratio(width, height) on the widget's camera.
SetAspectRatio(w, h) ==
    /\ camera' = set_aspect_ratio(camera, w, h)
    /\ last' = Last("set_aspect_ratio", <<w, h>>, 0, {}, NoCalls)
    /\ UNCHANGED <<width, height, image, zbuffer, settings, draws, prev,
                   mesh, scene>>

NextAspect ==
    \/ \E w \in WidgetWidths, h \in WidgetHeights : SetAspectRatio(w, h)
    \/ GetProjectionMatrix

SpecAspect == InitCamera /\ [][NextAspect]_vars

\* on_render_mode_changed and choose_base_color of MainWindow: the
\* settings of the renderer are assigned.
SetShading(st) ==
    /\ settings' = st
    /\ last' = Last("set_settings", 0, 0, {}, NoCalls)
    /\ UNCHANGED <<width, height, image, zbuffer, draws, prev, camera,
                   mesh, scene>>

\* Renderer.render_model(model, camera, light) under the renderer's
\* settings, with the texture bound to the renderer and the Phong sums of
\* the light.  last.arg records whether the call raised.
RenderShaded(model, texture, final) ==
    /\ draws < MaxDraws
    /\ \E r \in {render_model(model, width, height,
                              Shading(settings, texture, final), zbuffer, image)} :
           /\ image' = r.image
           /\ zbuffer' = r.zbuffer
           /\ last' = Last("render_model", r.raised, 0, r.written,
                           [wire |-> r.wire_calls, shade |-> r.shade_calls,
                            fill |-> r.fill_calls])
    /\ draws' = draws + 1
    /\ UNCHANGED <<width, height, settings, prev, camera, mesh, scene>>

NextShaded ==
    \/ \E color \in ClearColors : Clear(color)
    \/ \E st \in ShadingModes : SetShading(st)
    \/ \E model \in ShadedMeshes, texture \in BoundTextures, final \in LightSums :
           RenderShaded(model, texture, final)

SpecShaded == InitCamera /\ [][NextShaded]_vars





-----------------------------------------------------------------------------
(* Properties.  Their geometry and comparisons are stated here on their    *)
(* own, apart from the operators above.                                    *)

PixelsOf(w, h) == (0..(w - 1)) \X (0..(h - 1))

\* a < b for a finite depth a and a depth b that may be float('inf').
Nearer(a, b) == b[2] = 0 \/ a[1] * b[2] < b[1] * a[2]

InRange(zb, x, y) == x \in 0..(zb.width - 1) /\ y \in 0..(zb.height - 1)

\* C1: ZBuffer.test_and_set(x, y, z) returns true and stores z at (x, y)
\* exactly when (x, y) is in range and z is strictly less than the depth
\* stored there; otherwise it returns false and the buffer is unchanged.
\* Cells other than (x, y) never change.
C1_TestAndSet ==
    [][last'.op = "test_and_set" =>
        LET x == last'.arg[1]
            y == last'.arg[2]
            z == last'.arg[3]
        IN  IF InRange(zbuffer, x, y) /\ Nearer(z, zbuffer.buffer[y + 1][x + 1])
            THEN /\ last'.ret = TRUE
                 /\ zbuffer'.buffer[y + 1][x + 1] = z
                 /\ \A q \in PixelsOf(zbuffer.width, zbuffer.height) :
                        q # <<x, y>> =>
                            zbuffer'.buffer[q[2] + 1][q[1] + 1]
                                = zbuffer.buffer[q[2] + 1][q[1] + 1]
                 /\ zbuffer'.width = zbuffer.width
                 /\ zbuffer'.height = zbuffer.height
            ELSE /\ last'.ret = FALSE
                 /\ zbuffer' = zbuffer]_vars

\* A call in range with exactly the stored depth: the test fails.
C1_Witness ==
    /\ last.op = "test_and_set"
    /\ InRange(zbuffer, last.arg[1], last.arg[2])
    /\ zbuffer.buffer[last.arg[2] + 1][last.arg[1] + 1] = last.arg[3]
    /\ last.ret = FALSE

\* C3: after Renderer.clear(color), in whatever state it is called, every
\* framebuffer pixel is color and every Z-buffer cell is +infinity.
C3_ClearResets ==
    last.op = "clear" =>
        /\ \A q \in PixelsOf(width, height) : image[q[2] + 1][q[1] + 1] = last.arg
        /\ \A q \in PixelsOf(zbuffer.width, zbuffer.height) :
               zbuffer.buffer[q[2] + 1][q[1] + 1] = <<1, 0>>
        /\ \A y \in 1..Len(zbuffer.buffer) : \A x \in 1..Len(zbuffer.buffer[y]) :
               zbuffer.buffer[y][x] = <<1, 0>>

\* clear called on a Z-buffer in which every cell held a depth of the frame
\* before.
C3_Witness ==
    /\ last.op = "clear"
    /\ last.arg = <<20, 20, 30>>
    /\ width = 2
    /\ height = 2
    /\ last.ret = 4

\* C4: set_size(w, h) leaves an h-by-w framebuffer of (0,0,0) and an h-by-w
\* Z-buffer of +infinity, and in every state the dimensions of the
\* framebuffer, of the Z-buffer and Renderer.width/height agree.
C4_SetSizeResets ==
    /\ Len(image) = height
    /\ \A y \in 1..Len(image) : Len(image[y]) = width
    /\ zbuffer.width = width
    /\ zbuffer.height = height
    /\ Len(zbuffer.buffer) = height
    /\ \A y \in 1..Len(zbuffer.buffer) : Len(zbuffer.buffer[y]) = width
    /\ last.op = "set_size" =>
        /\ width = last.arg[1]
        /\ height = last.arg[2]
        /\ \A q \in PixelsOf(last.arg[1], last.arg[2]) :
               /\ image[q[2] + 1][q[1] + 1] = <<0, 0, 0>>
               /\ zbuffer.buffer[q[2] + 1][q[1] + 1] = <<1, 0>>

\* set_size to a framebuffer that is not square.
C4_Witness ==
    /\ last.op = "set_size"
    /\ last.arg = <<2, 1>>
    /\ Len(image) = 1
    /\ Len(image[1]) = 2

\* C9: triangulate_face returns, for n >= 3 indices, the n-2 triangles
\* [indices[0], indices[i], indices[i+1]], i = 1..n-2, in order (for n = 3
\* the face itself), and no triangle for n < 3; the list passed in is not
\* modified.
C9_FanTriangulation ==
    last.op = "triangulate_face" =>
        LET f == last.arg
            n == Len(f)
            r == last.ret.ret
        IN  /\ last.ret.face_vertices = f
            /\ n < 3 => r = <<>>
            /\ n = 3 => r = <<f>>
            /\ n >= 3 =>
                /\ Len(r) = n - 2
                /\ \A i \in 1..(n - 2) : r[i] = <<f[1], f[i + 1], f[i + 2]>>

\* A face of four indices: two triangles sharing its first index.
C9_Witness ==
    /\ last.op = "triangulate_face"
    /\ last.arg = <<0, 1, 2, 1>>
    /\ last.ret.ret = << <<0, 1, 2>>, <<0, 2, 1>> >>


-----------------------------------------------------------------------------
(* Geometry of the properties about rasterize_triangle.                    *)

\* Twice the signed area of (a, b, p).
Cross(a, b, p) == (b[1] - a[1]) * (p[2] - a[2]) - (b[2] - a[2]) * (p[1] - a[1])

TwiceArea(t) == Cross(t.v0, t.v1, t.v2)

\* The centre of pixel q is on the same side of all three edges of t.
CentreInside(t, q) ==
    LET c  == <<4 * q[1] + 2, 4 * q[2] + 2>>
        e0 == Cross(t.v0, t.v1, c)
        e1 == Cross(t.v1, t.v2, c)
        e2 == Cross(t.v2, t.v0, c)
    IN  (e0 >= 0 /\ e1 >= 0 /\ e2 >= 0) \/ (e0 <= 0 /\ e1 <= 0 /\ e2 <= 0)

InsidePixels(t, w, h) ==
    {q \in PixelsOf(w, h) : TwiceArea(t) # 0 /\ CentreInside(t, q)}

\* int() of a coordinate given in quarter pixels.
Trunc4(c) == IF c >= 0 THEN c \div 4 ELSE 0 - ((0 - c) \div 4)

Least(S) == CHOOSE a \in S : \A b \in S : a <= b

Greatest(S) == CHOOSE a \in S : \A b \in S : a >= b

\* Pixel q lies in the bounding box of t clamped to the framebuffer.
InBox(t, q, w, h) ==
    LET xs == {t.v0[1], t.v1[1], t.v2[1]}
        ys == {t.v0[2], t.v1[2], t.v2[2]}
    IN  /\ q[1] >= 0 /\ q[1] <= w - 1 /\ q[2] >= 0 /\ q[2] <= h - 1
        /\ Trunc4(Least(xs)) <= q[1] /\ q[1] <= Trunc4(Greatest(xs))
        /\ Trunc4(Least(ys)) <= q[2] /\ q[2] <= Trunc4(Greatest(ys))

\* All three vertices are outside [0, w) x [0, h) on the same side.
OutsideSameSide(t, w, h) ==
    LET vs == {t.v0, t.v1, t.v2}
    IN  \/ \A v \in vs : v[1] < 0
        \/ \A v \in vs : v[1] >= 4 * w
        \/ \A v \in vs : v[2] < 0
        \/ \A v \in vs : v[2] >= 4 * h

ConstantDepth(t) == t.z0 = t.z1 /\ t.z1 = t.z2

ConstantColor(t) == t.color0 = t.color1 /\ t.color1 = t.color2

\* The five reorderings of three vertices.
Permutations3 ==
    {pi \in [1..3 -> 1..3] : {pi[1], pi[2], pi[3]} = 1..3 /\ pi # <<1, 2, 3>>}

\* t with its vertices, colours and depths reordered by pi.
Permuted(t, pi) ==
    LET v == <<t.v0, t.v1, t.v2>>
        c == <<t.color0, t.color1, t.color2>>
        z == <<t.z0, t.z1, t.z2>>
    IN  [v0 |-> v[pi[1]], v1 |-> v[pi[2]], v2 |-> v[pi[3]],
         color0 |-> c[pi[1]], color1 |-> c[pi[2]], color2 |-> c[pi[3]],
         z0 |-> z[pi[1]], z1 |-> z[pi[2]], z2 |-> z[pi[3]]]

IsDraw(l) == l.op = "rasterize_triangle"

\* Two triangles of different constant depths and flat colours were drawn
\* with the Z-buffer into the buffers of a fresh renderer.
TwoFlatTriangles ==
    /\ draws = 2 /\ IsDraw(prev) /\ IsDraw(last)
    /\ prev.arg.hasZ /\ last.arg.hasZ
    /\ ConstantDepth(prev.arg.t) /\ ConstantDepth(last.arg.t)
    /\ ConstantColor(prev.arg.t) /\ ConstantColor(last.arg.t)
    /\ prev.arg.t.z0 # last.arg.t.z0

Overlap ==
    InsidePixels(prev.arg.t, width, height) \cap InsidePixels(last.arg.t, width, height)

C5_OutsideDrawsNothing ==
    [][(IsDraw(last') /\ OutsideSameSide(last'.arg.t, width, height)) =>
        /\ last'.ret = 0
        /\ last'.written = {}
        /\ image' = image
        /\ zbuffer' = zbuffer]_vars

\* A triangle of non-zero area with all three x in (-1, 0), whose clamped
\* bounding box is column 0.
C5_Witness ==
    /\ IsDraw(last)
    /\ TwiceArea(last.arg.t) # 0
    /\ \A v \in {last.arg.t.v0, last.arg.t.v1, last.arg.t.v2} : v[1] < 0 /\ v[1] > -4
    /\ \E q \in PixelsOf(width, height) : InBox(last.arg.t, q, width, height)
    /\ last.ret = 0

\* C6: rasterize_triangle on a triangle of zero area (collinear or
\* coincident vertices) returns 0 and changes neither buffer.
C6_DegenerateDrawsNothing ==
    [][(IsDraw(last') /\ TwiceArea(last'.arg.t) = 0) =>
        /\ last'.ret = 0
        /\ last'.written = {}
        /\ image' = image
        /\ zbuffer' = zbuffer]_vars

\* Three different collinear vertices on a line through a pixel centre of
\* the framebuffer.
C6_Witness ==
    /\ IsDraw(last)
    /\ TwiceArea(last.arg.t) = 0
    /\ Cardinality({last.arg.t.v0, last.arg.t.v1, last.arg.t.v2}) = 3
    /\ \E q \in PixelsOf(width, height) :
           InBox(last.arg.t, q, width, height) /\ CentreInside(last.arg.t, q)
    /\ last.ret = 0

C8_CountsPixelsWritten ==
    [][IsDraw(last') =>
        LET t == last'.arg.t
            hasZ == last'.arg.hasZ
        IN  /\ last'.ret = Cardinality(last'.written)
            /\ ~hasZ => zbuffer' = zbuffer
            /\ \A q \in PixelsOf(width, height) :
                 LET old == zbuffer.buffer[q[2] + 1][q[1] + 1]
                     new == zbuffer'.buffer[q[2] + 1][q[1] + 1]
                     passed == new[2] # 0 /\ new # old /\ Nearer(new, old)
                 IN  /\ q \in last'.written <=>
                            (q \in InsidePixels(t, width, height) /\ (~hasZ \/ passed))
                     /\ q \in last'.written => InBox(t, q, width, height)
                     /\ q \notin last'.written =>
                            /\ image'[q[2] + 1][q[1] + 1] = image[q[2] + 1][q[1] + 1]
                            /\ new = old]_vars

\* A second triangle some of whose pixels pass the depth test and some fail.
C8_Witness ==
    /\ IsDraw(last)
    /\ draws = 2
    /\ last.arg.hasZ
    /\ last.ret >= 1
    /\ last.ret < Cardinality(InsidePixels(last.arg.t, width, height))

\* C10: with draw_wireframe set, render_model leaves the Z-buffer as it
\* was, makes no call of rasterize_triangle (the only reader of the
\* Z-buffer) or compute_vertex_colors, and every pixel it changes becomes
\* the wireframe colour (255, 255, 255).
C10_WireframeBypassesDepthAndShading ==
    [][(last'.op = "render_model" /\ settings.draw_wireframe) =>
        /\ zbuffer' = zbuffer
        /\ last'.calls.fill = 0
        /\ last'.calls.shade = 0
        /\ \A q \in PixelsOf(width, height) :
               image'[q[2] + 1][q[1] + 1] # image[q[2] + 1][q[1] + 1] =>
                   image'[q[2] + 1][q[1] + 1] = <<255, 255, 255>>]_vars

\* Outlines drawn over a frame whose Z-buffer holds depths of filled
\* triangles.
C10_Witness ==
    /\ last.op = "render_model"
    /\ settings.draw_wireframe
    /\ last.calls.wire >= 2
    /\ last.written # {}
    /\ \E q \in PixelsOf(width, height) : zbuffer.buffer[q[2] + 1][q[1] + 1] # <<1, 0>>


-----------------------------------------------------------------------------
(* Camera, matrices and the renderer from world space.                     *)

\* The camera of RenderWidget.__init__ and of the Camera defaults.
DefaultCamera ==
    /\ camera.position = <<<<0, 1>>, <<0, 1>>, <<5, 1>>>>
    /\ camera.target = <<<<0, 1>>, <<0, 1>>, <<0, 1>>>>
    /\ camera.up = <<<<0, 1>>, <<1, 1>>, <<0, 1>>>>
    /\ camera.fov = 45
    /\ camera.near_plane = <<1, 10>>
    /\ camera.far_plane = <<1000, 1>>

\* The fraction a is less than the fraction b, by cross multiplication.
FracLess(a, b) == a[1] * b[2] < b[1] * a[2]

\* The fraction c is the sum of the fractions a and b.
IsSum(a, b, c) == c[1] * a[2] * b[2] = (a[1] * b[2] + b[1] * a[2]) * c[2]

\* C11: rendering the unit cube (8 vertices, 6 quads, identity transform)
\* with the default camera and the wireframe mode on makes render_model call
\* rasterize_triangle_wireframe exactly 12 times.
C11_CubeTwelveOutlines ==
    (/\ last.op = "render_model"
     /\ settings.draw_wireframe
     /\ DefaultCamera
     /\ Len(last.arg.vertices) = 8
     /\ Len(last.arg.faces) = 6
     /\ \A i \in 1..8 : \A k \in 1..3 :
            last.arg.vertices[i][k] \in {<<-1, 2>>, <<1, 2>>})
        => last.calls.wire = 12

\* C12: the view matrix of the camera at (0,0,5) looking at the origin maps
\* the world origin to (0,0,-5), and the view matrix of any camera maps the
\* camera's own position to (0,0,0).
C12_ViewMatrixMovesCameraToOrigin ==
    last.op = "view_transform" =>
        /\ (DefaultCamera /\ last.arg = <<<<0, 1>>, <<0, 1>>, <<0, 1>>>>)
               => last.ret = <<<<0, 1>>, <<0, 1>>, <<-5, 1>>>>
        /\ last.arg = camera.position
               => last.ret = <<<<0, 1>>, <<0, 1>>, <<0, 1>>>>

\* C13: get_projection_matrix raises, or returns a matrix of other,
\* clamped, planes, whenever near_plane <= 0 or far_plane <= near_plane: it
\* never returns the matrix computed from such planes.
C13_DegenerateProjectionSignalled ==
    (/\ last.op = "get_projection_matrix"
     /\ \/ ~FracLess(<<0, 1>>, camera.near_plane)
        \/ ~FracLess(camera.near_plane, camera.far_plane))
        => \/ ~last.ret.ok
           \/ LET n == camera.near_plane
                  f == camera.far_plane
                  \* (far + near) / (near - far) as numerator and denominator
                  num == f[1] * n[2] + n[1] * f[2]
                  den == n[1] * f[2] - f[1] * n[2]
              IN  last.ret.data[3][3][1] * den # num * last.ret.data[3][3][2]

\* The camera as it was constructed.
AsConstructed ==
    IF prev.op = "Camera" THEN prev.ret
    ELSE [position |-> <<<<0, 1>>, <<0, 1>>, <<5, 1>>>>,
          target   |-> <<<<0, 1>>, <<0, 1>>, <<0, 1>>>>]

Drawable(model) ==
    LET ts == triangulate_model(model.faces)
        n  == Len(model.vertices)
    IN  {i \in 1..Len(ts) :
            /\ Len(ts[i]) >= 3
            /\ \A k \in 1..3 :
                   /\ 0 <= ts[i][k]
                   /\ ts[i][k] < n
                   /\ model.vertices[ts[i][k] + 1][3] <= 2
                   /\ model.vertices[ts[i][k] + 1][3] >= -2}

\* C14: render_model draws a triangle, filled or as an outline, exactly when
\* project_point accepts its three vertices, which it does unless the depth
\* after the transform exceeds 1.0 in magnitude; a triangle with a rejected
\* vertex leaves the framebuffer and the Z-buffer as they were and the
\* triangles after it are still drawn.
C14_RejectedVertexSkipsTriangle ==
    [][(last'.op = "render_model" /\ ~last'.arg) =>
        /\ last'.calls.wire + last'.calls.fill = Cardinality(Drawable(last'.ret))
        /\ Drawable(last'.ret) = {} => (image' = image /\ zbuffer' = zbuffer)]_vars

\* A mesh whose first triangle has a vertex beyond the depth range and
\* whose second triangle is drawn.
C14_Witness ==
    /\ last.op = "render_model"
    /\ ~last.arg
    /\ Len(last.ret.faces) = 2
    /\ Len(last.ret.faces[1]) = 3
    /\ last.ret.faces[1][3] \in 0..(Len(last.ret.vertices) - 1)
    /\ Abs(last.ret.vertices[last.ret.faces[1][3] + 1][3]) > 2
    /\ last.calls.wire + last.calls.fill = 1
    /\ last.written # {}


-----------------------------------------------------------------------------
(* Matrix constructors and vector operators.                               *)

\* data is N rows of N elements.
WellFormed(N, data) ==
    /\ Len(data) = N
    /\ \A i \in 1..N : Len(data[i]) = N

\* C16: a matrix constructor given data that is not N rows of N elements
\* fails with a validation error, whatever identity and zero are: no matrix
\* comes out of it.
C16_MalformedDataRejected ==
    (/\ last.op = "Matrix"
     /\ last.arg.data # <<"None">>
     /\ ~WellFormed(last.arg.N, last.arg.data))
        => (~last.ret.ok /\ last.ret.error = "ValueError")

\* C17: on two vectors of one class a + b and a - b return a new vector of
\* that class with the sums or differences of the components, a / s for
\* s # 0 returns a vector of that class with each component divided by s,
\* and the operands are as they were.
C17_VectorArithmetic ==
    last.op \in {"add", "sub", "truediv"} =>
        LET a == last.arg[1]
            b == last.arg[2]
            r == last.ret
        IN  /\ r.self = a
            /\ r.other = b
            /\ (last.op = "truediv" /\ b[1] = 0) \/
               /\ r.ret.class = a.class
               /\ Len(r.ret.value) = Len(a.value)
               /\ \A k \in 1..Len(a.value) :
                      LET x == a.value[k]
                          z == r.ret.value[k]
                      IN  CASE last.op = "add" -> IsSum(x, b.value[k], z)
                            [] last.op = "sub" -> IsSum(z, b.value[k], x)
                            [] last.op = "truediv" ->
                                   z[1] * x[2] * b[1] = x[1] * b[2] * z[2]

-----------------------------------------------------------------------------
(* Texture sampling.                                                       *)

\* The texture holds an image.
Loaded(tex) == ~Unloaded(tex)

Pixel(tex, x, y) == tex.data[y + 1][x + 1]

\* The four-texel blend with the second row taken between c01 and c11, in
\* the arithmetic of the sampler.
BilinearOfFour(tex, u, v, wrap_mode) ==
    LET x_float == FMulInt(Wrap(u, wrap_mode), tex.width - 1)
        y_float == FMulInt(Wrap(v, wrap_mode), tex.height - 1)
        x0 == FInt(x_float)
        y0 == FInt(y_float)
        x1 == Min2(x0 + 1, tex.width - 1)
        y1 == Min2(y0 + 1, tex.height - 1)
        fx == FSubInt(x_float, x0)
        fy == FSubInt(y_float, y0)
        c0 == [k \in 1..3 |-> Blend(Pixel(tex, x0, y0)[k], Pixel(tex, x1, y0)[k], fx)]
        c1 == [k \in 1..3 |-> Blend(Pixel(tex, x0, y1)[k], Pixel(tex, x1, y1)[k], fx)]
    IN  [k \in 1..3 |-> Blend(c0[k], c1[k], fy)]

\* C18: sample_bilinear on a loaded texture, for coordinates within the
\* image, returns on each channel
\* trunc(trunc(c00*(1-fx) + c10*fx)*(1-fy) + trunc(c01*(1-fx) + c11*fx)*fy):
\* the second row is blended between c01 and c11.
C18_SecondRowBlendsC11 ==
    (/\ last.op = "sample_bilinear"
     /\ Loaded(last.arg.tex)
     /\ last.arg.wrap_mode = "clamp")
        => /\ ~last.ret.raised
           /\ last.ret.ret = BilinearOfFour(last.arg.tex, last.arg.u, last.arg.v, "clamp")

\* The call just made sampled a loaded texture of width and height at
\* least 2 bilinearly in clamp mode.
SampledClamped ==
    /\ last.op = "sample_bilinear"
    /\ Loaded(last.arg.tex)
    /\ last.arg.wrap_mode = "clamp"
    /\ last.arg.tex.width >= 2
    /\ last.arg.tex.height >= 2

\* u is the grid coordinate of column i, v that of row j.
AtColumn(i) ==
    /\ i < last.arg.tex.width
    /\ last.arg.u = FDivInt(i, last.arg.tex.width - 1)

AtRow(j) ==
    /\ j < last.arg.tex.height
    /\ last.arg.v = FDivInt(j, last.arg.tex.height - 1)

\* (i / (width - 1)) * (width - 1) and (j / (height - 1)) * (height - 1)
\* come out as exactly i and j.
RoundTrips(i, j) ==
    /\ FMulInt(last.arg.u, last.arg.tex.width - 1) = Float(i, 0, 0)
    /\ FMulInt(last.arg.v, last.arg.tex.height - 1) = Float(j, 0, 0)

\* C19, as stated: for every loaded texture of width and height at least 2
\* and every texel (i, j), sample_bilinear(i/(width-1), j/(height-1),
\* 'clamp') returns exactly data[j][i].
C19_GridCornersExact ==
    SampledClamped =>
        \A i \in 0..(MaxTexW - 1) : AtColumn(i) =>
            \A j \in 0..(MaxTexH - 1) : AtRow(j) =>
                /\ ~last.ret.raised
                /\ last.ret.ret = Pixel(last.arg.tex, i, j)

\* C19, amended: the same for the texels (i, j) whose coordinates multiply
\* back to exactly i and j, among them (0, 0) of the 2x2 texture.
C19_RoundTripGridCornersExact ==
    SampledClamped =>
        \A i \in 0..(MaxTexW - 1) : AtColumn(i) =>
            \A j \in 0..(MaxTexH - 1) : (AtRow(j) /\ RoundTrips(i, j)) =>
                /\ ~last.ret.raised
                /\ last.ret.ret = Pixel(last.arg.tex, i, j)

\* An inner texel of a texture wider and higher than 2, at coordinates
\* that are not dyadic and multiply back exactly, sampled as its own colour.
C19_Witness ==
    /\ SampledClamped
    /\ IsQuotient(last.arg.u)
    /\ IsQuotient(last.arg.v)
    /\ \E i \in 1..(MaxTexW - 2), j \in 1..(MaxTexH - 2) :
           /\ AtColumn(i)
           /\ AtRow(j)
           /\ RoundTrips(i, j)
           /\ last.ret.ret = Pixel(last.arg.tex, i, j)

\* C20: on a loaded texture sample and sample_bilinear, whatever u, v and
\* wrap_mode are, read only texels data[y][x] with 0 <= x < width and
\* 0 <= y < height and raise nothing; on a texture that is not loaded both
\* return the gray (128, 128, 128).
C20_AddressingInRange ==
    last.op \in {"sample", "sample_bilinear"} =>
        /\ ~last.ret.raised
        /\ \A xy \in last.ret.reads :
               /\ xy[1] \in 0..(last.arg.tex.width - 1)
               /\ xy[2] \in 0..(last.arg.tex.height - 1)
        /\ Unloaded(last.arg.tex) => last.ret.ret = <<128, 128, 128>>

-----------------------------------------------------------------------------
(* Vertex colours and lights.                                              *)

\* The vertex idx of the mesh gets a colour from the texture: texturing is
\* on, a texture is bound and loaded, and the mesh has a coordinate of two
\* components for the vertex.
Textured(idx, model, st) ==
    /\ st.use_texture
    /\ st.texture # <<>>
    /\ Loaded(st.texture[1])
    /\ idx < Len(model.tex_coords)
    /\ Len(model.tex_coords[idx + 1]) >= 2

\* a * b / 255 on each channel, truncated
Product255(a, b) == [k \in 1..3 |-> TruncDiv(a[k] * b[k], 255)]

\* C21: every vertex colour starts as base_color; with lighting on the
\* Phong colour is multiplied into the colour only when the vertex colour
\* was textured and replaces it whenever no texture is active for the
\* vertex; with texturing and lighting off all three colours are
\* base_color.
C21_LightingReplacesUntextured ==
    last.op = "compute_vertex_colors" =>
        \A i \in 0..2 :
            LET model == last.arg.model
                st    == last.arg.st
                color == last.ret[i + 1]
                lit   == phong_lighting(st.final[i + 1])
            IN  /\ (st.use_lighting /\ ~Textured(i, model, st)) => color = lit
                /\ (st.use_lighting /\ Textured(i, model, st)) =>
                       color = Product255(lit,
                                   Product255(st.base_color,
                                       sample_bilinear(st.texture[1],
                                           model.tex_coords[i + 1][1],
                                           model.tex_coords[i + 1][2], "repeat").ret))
                /\ (~st.use_lighting /\ ~st.use_texture) => color = st.base_color

\* C22: a Light constructed from an RGB tuple, on the scale 0-1 or on the
\* scale 0-255, stores a colour whose three channels lie in [0, 1].
C22_LightColorNormalized ==
    last.op = "Light" =>
        \A k \in 1..3 : ~QLess(last.ret[k], Q(0)) /\ ~QLess(Q(1), last.ret[k])

-----------------------------------------------------------------------------
(* Vertex normals.                                                         *)

\* The corners of the triangles of the faces, as pairs of the index of a
\* triangle and a position in it.
Corners(triangles) == {ik \in (1..Len(triangles)) \X (1..3) : TRUE}

\* The sum of a set of vectors given by a function on a finite set.
RECURSIVE SumOver(_, _)
SumOver(S, f) ==
    IF S = {} THEN Vector3(0, 0, 0)
    ELSE CHOOSE out \in
             {Vector3_add(rest, f[x]) :
                 x \in {CHOOSE y \in S : TRUE},
                 rest \in {SumOver(S \ {CHOOSE y \in S : TRUE}, f)}} : TRUE

\* The sum of the face normals at the corners that are the vertex v.
NormalSum(v, vertices, faces) ==
    LET triangles == triangulate_model(faces)
        at        == {ik \in Corners(triangles) : triangles[ik[1]][ik[2]] = v}
    IN  SumOver(at, [ik \in at |->
                        compute_face_normal(vertices[triangles[ik[1]][1] + 1],
                                            vertices[triangles[ik[1]][2] + 1],
                                            vertices[triangles[ik[1]][3] + 1])])

IndicesInRange(vertices, faces) ==
    \A i \in 1..Len(faces) : \A k \in 1..Len(faces[i]) :
        faces[i][k] \in 0..(Len(vertices) - 1)

\* C23: compute_vertex_normals, for non-empty inputs with every face index
\* in range, returns one normal per vertex, none of them the zero vector,
\* and a vertex whose face normals sum to zero gets (0, 0, 1).
C23_ZeroSumGetsDefaultNormal ==
    (/\ last.op = "compute_vertex_normals"
     /\ last.arg.vertices # <<>>
     /\ last.arg.faces # <<>>
     /\ IndicesInRange(last.arg.vertices, last.arg.faces))
        => /\ ~last.ret.raised
           /\ Len(last.ret.ret) = Len(last.arg.vertices)
           /\ \A v \in 1..Len(last.arg.vertices) :
                  /\ last.ret.ret[v] # Vector3(0, 0, 0)
                  /\ NormalSum(v - 1, last.arg.vertices, last.arg.faces) = Vector3(0, 0, 0)
                         => last.ret.ret[v] = Vector3(0, 0, 1)

\* A mesh with a vertex no face uses and a vertex of two faces whose
\* normals are opposite, both given (0, 0, 1), and the faces tilted so
\* that (0, 0, 1) is not their normal.
C23_Witness ==
    /\ last.op = "compute_vertex_normals"
    /\ last.arg.vertices = TiltedVertices
    /\ last.arg.faces = << <<0, 1, 2>>, <<0, 2, 1>> >>
    /\ ~last.ret.raised
    /\ last.ret.ret[1] = Vector3(0, 0, 1)
    /\ last.ret.ret[4] = Vector3(0, 0, 1)
    /\ compute_face_normal(TiltedVertices[1], TiltedVertices[2], TiltedVertices[3])
           \notin {Vector3(0, 0, 0), Vector3(0, 0, 1)}

-----------------------------------------------------------------------------
(* Mesh editing.                                                           *)

\* Every face has at least 3 indices, all in [0, vertex_count).
ValidFaces(model) ==
    \A i \in 1..Len(model.faces) :
        /\ Len(model.faces[i]) >= 3
        /\ \A k \in 1..Len(model.faces[i]) :
               model.faces[i][k] \in 0..(Len(model.vertices) - 1)

\* The faces as sequences of the vertex objects they refer to.
FaceObjects(model) ==
    [i \in 1..Len(model.faces) |->
        [k \in 1..Len(model.faces[i]) |-> model.vertices[model.faces[i][k] + 1]]]

\* The subsequence of a sequence at the positions in a set.
RECURSIVE Picked(_, _, _)
Picked(seq, positions, i) ==
    IF i > Len(seq) THEN <<>>
    ELSE (IF i \in positions THEN <<seq[i]>> ELSE <<>>) \o Picked(seq, positions, i + 1)

\* C24: on a mesh whose faces all have at least 3 indices in range,
\* delete_vertices and delete_faces leave a mesh of that kind.
\* delete_vertices returns the number of distinct indices in range it was
\* given and removes those vertices, the faces that referred to one of
\* them are gone, and the other faces are there in their order, referring
\* to the vertex objects they referred to.  delete_faces removes the faces
\* at the indices in range and nothing else.
C24_MeshIndexInvariant ==
    [][(last'.op \in {"delete_vertices", "delete_faces"} /\ ValidFaces(mesh)) =>
        LET in_range == IF last'.op = "delete_vertices"
                        THEN last'.arg \cap (0..(Len(mesh.vertices) - 1))
                        ELSE last'.arg \cap (0..(Len(mesh.faces) - 1))
            deleted  == {mesh.vertices[i + 1] : i \in in_range}
            before   == FaceObjects(mesh)
            staying  == {i \in 1..Len(before) :
                            \A k \in 1..Len(before[i]) : before[i][k] \notin deleted}
        IN  /\ ValidFaces(mesh')
            /\ last'.ret = Cardinality(in_range)
            /\ last'.op = "delete_vertices" =>
                   /\ mesh'.vertices =
                          Picked(mesh.vertices,
                                 {i \in 1..Len(mesh.vertices) : (i - 1) \notin in_range}, 1)
                   /\ FaceObjects(mesh') = Picked(before, staying, 1)
            /\ last'.op = "delete_faces" =>
                   /\ mesh'.vertices = mesh.vertices
                   /\ FaceObjects(mesh') =
                          Picked(before, {i \in 1..Len(before) : (i - 1) \notin in_range}, 1)
       ]_vars

\* Vertex 0 has just been deleted from a valid mesh: a face that referred
\* to it is gone and a face that did not is there with smaller indices.
C24_Witness ==
    /\ last.op = "delete_vertices"
    /\ last.arg = {0}
    /\ last.ret = 1
    /\ Len(mesh.vertices) = MaxVertices - 1
    /\ mesh.vertices[1] = <<"v", 1>>
    /\ mesh.faces = << <<MaxVertices - 4, MaxVertices - 3, MaxVertices - 2>> >>
    /\ mesh.normals \in {<<>>, Tail(Objects("n", MaxVertices))}

-----------------------------------------------------------------------------
(* Scene selection.                                                        *)

\* The selected index is -1 exactly when the list is empty, and else an
\* index of the list.
SelectionOf(list, selected) ==
    /\ selected = -1 <=> list = <<>>
    /\ list # <<>> => selected \in 0..(Len(list) - 1)

\* C26: in every state reached by add_model, remove_model, select_model
\* and clear the selected model index is -1 exactly when there is no
\* model and else an index of the model list; the same for the selected
\* camera index and the camera list under add_camera, remove_camera and
\* select_camera.
C26_SelectionInvariant ==
    /\ SelectionOf(scene.models, scene.selected_model_index)
    /\ SelectionOf(scene.cameras, scene.selected_camera_index)

\* The last camera has just been removed, and of several models one after
\* the first is selected.
C26_Witness ==
    /\ last.op = "remove_camera"
    /\ last.ret
    /\ scene.cameras = <<>>
    /\ scene.selected_camera_index = -1
    /\ Len(scene.models) = MaxModels
    /\ scene.selected_model_index = MaxModels - 1

\* C27: remove_model(i) with a valid index other than the selected one
\* returns True and leaves the same model object selected; with an
\* invalid index it returns False and changes neither the models nor the
\* selection.
C27_RemoveKeepsSelection ==
    [][last'.op = "remove_model" =>
        IF last'.arg \in 0..(Len(scene.models) - 1)
        THEN /\ last'.ret
             /\ scene'.models = Pop(scene.models, last'.arg)
             /\ last'.arg # scene.selected_model_index =>
                    GetSelected(scene'.models, scene'.selected_model_index)
                        = GetSelected(scene.models, scene.selected_model_index)
        ELSE /\ ~last'.ret
             /\ scene' = scene
       ]_vars

\* The first model has just been removed while the last of three was
\* selected: the selected index is one less, on the same model.
C27_Witness ==
    /\ last.op = "remove_model"
    /\ last.ret
    /\ last.arg = 0
    /\ scene.selected_model_index = 1
    /\ scene.models = <<"A", "B">>

-----------------------------------------------------------------------------
(* Termination of the outline.                                             *)

\* int() of the k-th of the vertices vs, cyclically, as <<x, y>>.
WireEnd(vs, k) ==
    LET v == vs[((k - 1) % 3) + 1] IN <<IntOf(v[1]), IntOf(v[2])>>

\* max(|x1 - x0|, |y1 - y0|) of the k-th edge of the outline of vs.
EdgeSpan(vs, k) ==
    Max2(Abs(WireEnd(vs, k + 1)[1] - WireEnd(vs, k)[1]),
         Abs(WireEnd(vs, k + 1)[2] - WireEnd(vs, k)[2]))

\* C28: rasterize_triangle_wireframe terminates for every triple of screen
\* vertices, on or off the screen, coincident ones included: each of its
\* three loops reaches its end point after at most max(|x1-x0|, |y1-y0|)
\* steps, and every pixel it assigns has 0 <= x < width, 0 <= y < height.
C28_WireframeTerminates ==
    last.op = "rasterize_triangle_wireframe" =>
        /\ ~last.ret.running
        /\ Len(last.ret.edges) = 3
        /\ \A k \in 1..3 : last.ret.edges[k] <= EdgeSpan(last.arg, k)
        /\ \A p \in last.written :
               /\ 0 <= p[1] /\ p[1] < width
               /\ 0 <= p[2] /\ p[2] < height

\* An outline with an edge from right of the image to its left, a steep
\* edge that starts and ends off the image, and two vertices on one pixel,
\* that assigned some pixel.
C28_Witness ==
    /\ last.op = "rasterize_triangle_wireframe"
    /\ last.arg = << <<30, 5>>, <<-6, 0>>, <<-6, 0>> >>
    /\ last.ret.edges = <<8, 0, 8>>
    /\ last.written # {}

-----------------------------------------------------------------------------
(* Face indices outside the vertex list.                                   *)

\* Some triangle of the model has an index outside [0, vertex_count).
HasStrayIndex(model) ==
    LET ts == triangulate_model(model.faces)
    IN  \E i \in 1..Len(ts) : \E k \in 1..Len(ts[i]) :
            ts[i][k] < 0 \/ ts[i][k] >= Len(model.vertices)

\* C29: render_model without precomputed triangles, on a mesh with a face
\* index outside [0, vertex_count), too large or negative, does not raise:
\* the triangles with such an index are skipped and the other triangles of
\* the mesh are rendered.
C29_StrayIndexSkipped ==
    (/\ last.op = "render_model"
     /\ last.ret.vertices # <<>>
     /\ HasStrayIndex(last.ret))
        => /\ ~last.arg
           /\ last.calls.wire + last.calls.fill = Cardinality(Drawable(last.ret))

-----------------------------------------------------------------------------
(* The aspect ratio.                                                       *)

\* C30: after any sequence of set_aspect_ratio(width, height) with
\* width >= 0 and any height the camera's aspect_ratio is strictly
\* positive, so get_projection_matrix never divides by a zero aspect
\* ratio; a call with height <= 0 leaves aspect_ratio as it was.
C30_AspectRatioPositive ==
    [][/\ QLess(Q(0), camera'.aspect_ratio)
       /\ last'.op = "get_projection_matrix" => last'.ret.ok
       /\ (last'.op = "set_aspect_ratio" /\ last'.arg[2] <= 0) =>
              camera'.aspect_ratio = camera.aspect_ratio
      ]_vars

-----------------------------------------------------------------------------
(* The framebuffer holds bytes.                                            *)

\* A tuple of three integers from 0 to 255.
ByteTriple(c) ==
    /\ Len(c) = 3
    /\ \A k \in 1..3 : c[k] \in 0..255

\* C25: every pixel rasterize_triangle writes has three integer channels
\* in [0, 255] whatever the vertex colours, below 0 and above 255
\* included; so after clear(bg) with a byte-valued bg and any render_model
\* calls under any settings every pixel of the framebuffer has integer
\* channels in [0, 255].
C25_FramebufferBytes ==
    \A q \in PixelsOf(width, height) : ByteTriple(image[q[2] + 1][q[1] + 1])

\* render_model has just filled a pixel from vertex colours of
\* (300, -20, 100), over a cleared framebuffer: the pixel holds
\* (255, 0, 100).
C25_Witness ==
    /\ last.op = "render_model"
    /\ settings.base_color = <<300, -20, 100>>
    /\ ~settings.use_texture
    /\ last.calls.fill > 0
    /\ \E q \in last.written : image[q[2] + 1][q[1] + 1] = <<255, 0, 100>>
    /\ \E q \in PixelsOf(width, height) : image[q[2] + 1][q[1] + 1] = <<20, 20, 30>>

=============================================================================
